---- MODULE Spec2Model ----
(***************************************************************************)
(* Model of the rinko backend: the AMSAT entry store and its hourly merge  *)
(* (module/sat/manager.rs), the next-trigger computations and the worker   *)
(* loops of the scheduled-task manager (module/scheduled.rs) and of the    *)
(* satellite updater (module/sat/updater.rs), the LoTW and QO-100 feed     *)
(* updaters, the AMSAT name parsing (module/sat/amsat_types.rs), the       *)
(* search over the entries and the query facade (module/handler.rs).       *)
(*                                                                         *)
(* Times of the store are minutes since an epoch.  A reported_time string  *)
(* that DateTime::parse_from_rfc3339 rejects is the value BadTime.         *)
(***************************************************************************)
EXTENDS Integers, Sequences, FiniteSets, TLC

VARIABLES
    now,            \* Utc::now(), in minutes
    amsat_entries,  \* SatelliteManager.amsat_entries: HashMap api_name -> AmsatEntry
    cache_file,     \* satellite_cache/amsat_cache.json: whether it exists, and the map saved
    cycles,         \* update cycles run so far (bounds the exploration)
    last_cycle,     \* the last update cycle: what its scrape gave, whether its merge ended Ok
    trigger_now,    \* the DateTime<Utc> handed to the next-trigger computations
    next_trigger,   \* what they returned for it
    mgr,            \* ScheduledTaskManager: new, started, shutting_down, down
    task_handles,   \* ScheduledTaskManager.task_handles
    aborted,        \* the tasks whose JoinHandle::abort() was called
    sd_next,        \* shutdown's position in task_handles
    pc,             \* where each worker task is
    attempt,        \* the loop variable of each retry loop
    sleep_for,      \* seconds of the sleep between attempts a worker is in
    calls,          \* update bodies invoked in the worker's current cycle
    cycle_result,   \* none, running, ok, failed: the worker's current or last cycle
    prev_result,    \* cycle_result as it was when the current cycle began
    last_run,       \* per worker, the last update body that ended, and how
    bodies,         \* per worker, the update_all_satellites futures alive
    feed_minute,    \* Utc::now() of the LoTW / QO-100 updaters, in minutes
    snapshot,       \* per feed, LotwUpdater.snapshot / Qo100Updater.snapshot
    image_files,    \* per feed, the minutes whose <feed>_<minute>.png exists
    latest_png,     \* per feed, what <feed>_latest.png shows
    feed_updates,   \* calls of update() so far
    last_update,    \* the last call of update(): feed, response, result
    name_call,      \* a call of parse_amsat_name: its argument and, once done, its result
    search,         \* a call of search_amsat_entries: query, entries and, once done, results
    request,        \* a message handed to MessageHandler::handle_message, with what
                    \* the handler meets while it serves it
    message_response,  \* the MessageResponse returned for it
    render_now,     \* Utc::now() of the satellite renderer, in minutes
    render_entries, \* the entries in the order amsat_entries.values() gives them
    image_cache,    \* the sat_*.png files of satellite_cache/image_cache
    renders,        \* the /q commands served so far, and how
    freq_call,      \* a call of format_frequency: its argument and, once done, its result
    update_task,    \* update_all_satellites step by step: its phase, the fetch
                    \* results it holds, the names still to merge
    rw_lock,        \* the RwLock of amsat_entries: the write guard and the read guards alive
    search_task,    \* SatelliteManager::search_amsat_entries: its phase, the map it read
    released,       \* the entry maps as they were whenever no write guard was alive
    render_task,    \* per feed, LotwRenderer::render / Qo100Renderer::render step by
                    \* step: its phase and the number of the image it writes
    output_files,   \* per feed, the numbers of the images whose output_path exists
    latest_file,    \* per feed, <feed>_latest.png: 0 while the file is missing, else
                    \* the number of the image it is a copy of
    published,      \* per feed, whether <feed>_latest.png has been written once
    latest_query,   \* the last lotw_query / qo100_query: what it met and answered
    conn_state,     \* BackendConnectionManager.state
    client,         \* BackendConnectionManager.client: 0 for None, else the number
                    \* of the BackendClient stored
    client_lock,    \* who holds a guard of the client RwLock across an await
    backend_up,     \* whether the backend can be reached
    broken_upto,    \* the clients up to this number met an outage
    connects,       \* BackendClient::new has succeeded this many times
    conn_pc,        \* where main and each task of the frontend is
    held,           \* per task, the client it cloned, borrowed or just built
    mark_calls,     \* the calls of mark_disconnected that took the state lock
    frontends,      \* BotBackendService.frontends: per frontend_id, 0 or the
                    \* number of the subscription whose command_tx is stored
    subscriptions,  \* the subscribe_commands calls so far: frontend_id, whether
                    \* the receiver is alive, whether the monitor has run
    last_send       \* the last send_command_to_frontend: its target and result

store_vars == <<now, amsat_entries, cache_file, cycles, last_cycle>>
trigger_vars == <<trigger_now, next_trigger>>
worker_vars == <<mgr, task_handles, aborted, sd_next, pc, attempt, sleep_for, calls,
                 cycle_result, prev_result, last_run, bodies>>
feed_vars == <<feed_minute, snapshot, image_files, latest_png, feed_updates,
               last_update>>
\* the variables of the parts added to the store, the triggers and the workers
query_vars == <<name_call, search, request, message_response>>
\* the variables of the image cache of the satellite queries
render_vars == <<render_now, render_entries, image_cache, renders>>
freq_vars == <<freq_call>>
lock_vars == <<update_task, rw_lock, search_task, released>>
\* the alias files of the feeds while a render is under way
alias_vars == <<render_task, output_files, latest_file, published, latest_query>>
\* the connection manager of the frontend
conn_vars == <<conn_state, client, client_lock, backend_up, broken_upto, connects,
               conn_pc, held, mark_calls>>
\* the registry of frontends of the backend
reg_vars == <<frontends, subscriptions, last_send>>
late_vars == <<alias_vars, conn_vars, reg_vars>>
\* what the parts modelled last leave alone
early_vars == <<store_vars, trigger_vars, worker_vars, feed_vars, query_vars,
                render_vars, freq_vars, lock_vars>>
alias_rest == <<early_vars, conn_vars, reg_vars>>
conn_rest == <<early_vars, alias_vars, reg_vars>>
reg_rest == <<early_vars, alias_vars, conn_vars>>
more_vars == <<render_vars, freq_vars, lock_vars, late_vars>>
\* what the steps of update_all_satellites and of a search leave alone
lock_rest == <<trigger_vars, worker_vars, feed_vars, query_vars, render_vars, freq_vars,
               late_vars>>
ext_vars == <<feed_vars, query_vars, more_vars>>
vars == <<now, amsat_entries, cache_file, cycles, last_cycle, trigger_now, next_trigger,
          mgr, task_handles, aborted, sd_next, pc, attempt, sleep_for, calls,
          cycle_result, prev_result, last_run, bodies,
          feed_minute, snapshot, image_files, latest_png, feed_updates, last_update,
          name_call, search, request, message_response,
          render_now, render_entries, image_cache, renders, freq_call,
          update_task, rw_lock, search_task, released,
          render_task, output_files, latest_file, published, latest_query,
          conn_state, client, client_lock, backend_up, broken_upto, connects,
          conn_pc, held, mark_calls, frontends, subscriptions, last_send>>

----------------------------------------------------------------------------
(* Bounds *)

\* steps the clock may advance
MaxTicks == 1
\* update cycles explored
MaxCycles == 2
\* minutes the clock of the feed updaters may advance
MaxFeedMinutes == 1
\* calls of LotwUpdater::update / Qo100Updater::update explored
MaxFeedUpdates == 3
\* entries in a slice handed to the search
MaxSearchEntries == 2
\* steps of seven minutes the clock of the renderer may advance
MaxRenderTicks == 3
\* /q commands served
MaxRenders == 2
\* update cycles followed step by step
MaxLockCycles == 2

----------------------------------------------------------------------------
(* Program constants *)

DATA_RETENTION_HOURS == 48
MAX_RETRIES == 3
retry_sleep_seconds == 60
timeout_duration == 300
RETRY_DELAY_SECONDS == 60
UPDATE_TIMEOUT_SECONDS == 300

----------------------------------------------------------------------------
(* Inputs *)

BadTime == 0 - 1
EmptyMap == [n \in {} |-> 0]
NoFile == [exists |-> FALSE, entries |-> EmptyMap]
None == 0 - 1

Names == {"ISS-FM", "AO-91"}

\* The clock starts at 01:00 of day 0 and advances two days at a time.
StartTimes == {60}
TickSteps == {48 * 60}

Report(callsign, reported_time) ==
    [callsign |-> callsign, reported_time |-> reported_time]

\* What the AMSAT API can return for a name: two reports by one callsign in
\* the hour 00:xx, one in the hour 01:xx (ten minutes ahead of the first clock
\* value) and one with a malformed time.
ReportsOf(name) ==
    IF name = "ISS-FM"
    THEN {Report("BA1AA", 10), Report("BA1AA", 30), Report("BD2BB", 70),
          Report("BA1AA", BadTime)}
    ELSE {Report("BG3CC", 70)}

ReportLists(name) ==
    {<<>>} \cup {<<r>> : r \in ReportsOf(name)}
           \cup {<<r, s>> : r \in ReportsOf(name), s \in ReportsOf(name)}

\* Result<Vec<AmsatReport>> of fetch_satellite_data
FetchResults(name) ==
    {[ok |-> FALSE, listed |-> TRUE, reports |-> <<>>]}
        \cup {[ok |-> TRUE, listed |-> TRUE, reports |-> l] : l \in ReportLists(name)}

NotListed == [ok |-> FALSE, listed |-> FALSE, reports |-> <<>>]

\* no update cycle has run yet
NoCycle == [scrape |-> "none", merged |-> FALSE]

\* All orders in which a HashMap over the keys S can be iterated
Perms(S) ==
    {p \in [1..Cardinality(S) -> S] : \A i, j \in DOMAIN p : i # j => p[i] # p[j]}

----------------------------------------------------------------------------
(* merge_reports and its helpers *)

\* with_minute(0).with_second(0).with_nanosecond(0) of a parsed timestamp
get_time_block(timestamp) == (timestamp \div 60) * 60

\* blocks_map: the keys and, per key, the reports in arrival order
BlockKeys(new_reports) ==
    {get_time_block(new_reports[i].reported_time) : i \in DOMAIN new_reports}

BlockReports(new_reports, time) ==
    SelectSeq(new_reports, LAMBDA r : get_time_block(r.reported_time) = time)

\* existing_block.reports.iter().any(same callsign and reported_time)
HasReport(reports, report) ==
    \E i \in DOMAIN reports :
        /\ reports[i].callsign = report.callsign
        /\ reports[i].reported_time = report.reported_time

PushAlways(existing, reports) == existing \o reports

\* the inner loop: push every report the block does not hold yet
RECURSIVE PushNew(_, _)
PushNew(existing, reports) ==
    IF reports = <<>> THEN existing
    ELSE PushNew(IF HasReport(existing, Head(reports))
                 THEN existing
                 ELSE Append(existing, Head(reports)),
                 Tail(reports))

\* data_blocks.iter_mut().find(|b| b.time == time)
FindBlock(data_blocks, time) ==
    {i \in DOMAIN data_blocks : data_blocks[i].time = time}

FirstOf(S) == CHOOSE i \in S : \A j \in S : i <= j

MergeBlockAppend(data_blocks, time, reports) ==
    Append(data_blocks, [time |-> time, reports |-> reports])

\* one iteration of "for (time, reports) in blocks_map"
MergeBlock(data_blocks, time, reports) ==
    IF FindBlock(data_blocks, time) # {}
    THEN [data_blocks EXCEPT
            ![FirstOf(FindBlock(data_blocks, time))].reports = PushNew(@, reports)]
    ELSE Append(data_blocks, [time |-> time, reports |-> reports])

RECURSIVE MergeBlocks(_, _, _)
MergeBlocks(data_blocks, new_reports, order) ==
    IF order = <<>> THEN data_blocks
    ELSE MergeBlocks(
            MergeBlock(data_blocks, Head(order), BlockReports(new_reports, Head(order))),
            new_reports, Tail(order))

\* stable insertion of b into a sequence sorted by time descending
RECURSIVE InsertBlock(_, _)
InsertBlock(sorted, b) ==
    IF sorted = <<>> THEN <<b>>
    ELSE IF Head(sorted).time >= b.time
         THEN <<Head(sorted)>> \o InsertBlock(Tail(sorted), b)
         ELSE <<b>> \o sorted

SortKeepOrder(data_blocks) == data_blocks

\* data_blocks.sort_by(|a, b| b.time.cmp(&a.time)): stable, newest first
RECURSIVE SortBlocks(_)
SortBlocks(data_blocks) ==
    IF data_blocks = <<>> THEN <<>>
    ELSE InsertBlock(SortBlocks(SubSeq(data_blocks, 1, Len(data_blocks) - 1)),
                     data_blocks[Len(data_blocks)])

\* clean_old_reports: keep the blocks at or after now - 48 h
clean_old_reports(data_blocks, at) ==
    SelectSeq(data_blocks,
              LAMBDA b : b.time >= at - DATA_RETENTION_HOURS * 60)

\* merge_reports: Err (nothing changed) when a reported_time does not parse
merge_reports(data_blocks, new_reports, order, at) ==
    IF \E i \in DOMAIN new_reports : new_reports[i].reported_time = BadTime
    THEN [ok |-> FALSE, blocks |-> data_blocks]
    ELSE [ok |-> TRUE,
          blocks |-> clean_old_reports(
                        SortBlocks(MergeBlocks(data_blocks, new_reports, order)), at)]

\* the bucket orders a merge of new_reports can take
MergeOrders(new_reports) ==
    IF \E i \in DOMAIN new_reports : new_reports[i].reported_time = BadTime
    THEN {<<>>}
    ELSE Perms(BlockKeys(new_reports))

----------------------------------------------------------------------------
(* The entry store *)

\* AmsatEntry::from_api_name
from_api_name(at) ==
    [reports |-> <<>>, last_updated |-> at,
     last_fetch_success |-> None, update_success |-> FALSE]

\* entries.entry(api_name).or_insert_with(from_api_name)
Upsert(entries, name, at) ==
    IF name \in DOMAIN entries
    THEN entries
    ELSE [n \in DOMAIN entries \cup {name} |->
            IF n = name THEN from_api_name(at) ELSE entries[n]]

MergeOneDropsOnErr(entries, name, result, order, at) ==
    LET ups == Upsert(entries, name, at)
        e == ups[name]
    IN  IF result.ok /\ result.reports # <<>>
        THEN LET m == merge_reports(e.reports, result.reports, order, at)
             IN  IF m.ok
                 THEN [ok |-> TRUE,
                       entries |-> [ups EXCEPT ![name] =
                            [reports |-> m.blocks, last_updated |-> at,
                             last_fetch_success |-> at, update_success |-> TRUE]]]
                 ELSE [ok |-> FALSE, entries |-> ups]
        ELSE [ok |-> TRUE,
              entries |-> [ups EXCEPT ![name] =
                    [e EXCEPT !.update_success = result.ok, !.last_updated = at,
                              !.reports = IF result.ok THEN @ ELSE <<>>]]]

\* The body of "for (api_name, fetch_result) in fetch_results" for one name.
\* ok = FALSE is the early return of merge_reports(..)?
MergeOne(entries, name, result, order, at) ==
    LET ups == Upsert(entries, name, at)
        e == ups[name]
    IN  IF result.ok /\ result.reports # <<>>
        THEN LET m == merge_reports(e.reports, result.reports, order, at)
             IN  IF m.ok
                 THEN [ok |-> TRUE,
                       entries |-> [ups EXCEPT ![name] =
                            [reports |-> m.blocks, last_updated |-> at,
                             last_fetch_success |-> at, update_success |-> TRUE]]]
                 ELSE [ok |-> FALSE, entries |-> ups]
        ELSE [ok |-> TRUE,
              entries |-> [ups EXCEPT ![name] =
                    [e EXCEPT !.update_success = result.ok, !.last_updated = at]]]

\* Step 3 of update_all_satellites over the names in HashMap order
RECURSIVE MergeAll(_, _, _, _, _)
MergeAll(entries, iteration, results, orders, at) ==
    IF iteration = <<>> THEN [ok |-> TRUE, entries |-> entries]
    ELSE LET name == Head(iteration)
             one == MergeOne(entries, name, results[name], orders[name], at)
         IN  IF one.ok
             THEN MergeAll(one.entries, Tail(iteration), results, orders, at)
             ELSE one

\* save_amsat_cache: the whole entry map is written to amsat_cache.json
save_amsat_cache(entries) == [exists |-> TRUE, entries |-> entries]

CacheAfterFailedMergeToo(merged, file) == save_amsat_cache(merged.entries)

\* Step 4 of update_all_satellites is reached only when no merge_reports(..)?
\* of Step 3 has returned: the cache file after the cycle
CacheAfterCycle(merged, file) ==
    IF merged.ok THEN save_amsat_cache(merged.entries) ELSE file

----------------------------------------------------------------------------
(* Next-trigger computations.  A DateTime<Utc> is a record of its day, hour, *)
(* minute, second and nanosecond.                                           *)

DateTime(day, hour, minute, second, nanosecond) ==
    [day |-> day, hour |-> hour, minute |-> minute, second |-> second,
     nanosecond |-> nanosecond]

\* now + chrono::Duration::hours(1)
PlusOneHour(t) ==
    IF t.hour = 23
    THEN [t EXCEPT !.day = t.day + 1, !.hour = 0]
    ELSE [t EXCEPT !.hour = t.hour + 1]

\* .with_minute(m).with_second(0).with_nanosecond(0)
AtMinute(t, m) == [t EXCEPT !.minute = m, !.second = 0, !.nanosecond = 0]

target_minutes == <<2, 17, 32, 47>>

\* the next update time with minute 17 as the first target from minute 0 on
calculate_next_update_time_from_17(t) ==
    IF t.minute <= 16 THEN AtMinute(t, 17)
    ELSE IF t.minute <= 31 THEN AtMinute(t, 32)
    ELSE IF t.minute <= 46 THEN AtMinute(t, 47)
    ELSE AtMinute(PlusOneHour(t), 2)

\* ScheduledTaskManager::calculate_next_update_time
calculate_next_update_time(t) ==
    LET later == {i \in DOMAIN target_minutes : target_minutes[i] > t.minute}
    IN  IF later # {}
        THEN AtMinute(t, target_minutes[FirstOf(later)])
        ELSE AtMinute(IF t.hour = 23 THEN PlusOneHour(t)
                      ELSE [t EXCEPT !.hour = t.hour + 1],
                      target_minutes[1])

\* SatelliteUpdater::calculate_fixed_minute_trigger
calculate_fixed_minute_trigger(t) ==
    IF t.minute <= 1 THEN AtMinute(t, 2)
    ELSE IF t.minute <= 16 THEN AtMinute(t, 17)
    ELSE IF t.minute <= 31 THEN AtMinute(t, 32)
    ELSE IF t.minute <= 46 THEN AtMinute(t, 47)
    ELSE AtMinute([t EXCEPT !.hour = (t.hour + 1) % 24], 2)

\* the whole seconds of an instant since 00:00:00 of day 0
Seconds(t) == ((t.day * 24 + t.hour) * 60 + t.minute) * 60 + t.second

\* a <= b and a < b on DateTime<Utc>
NotAfter(a, b) ==
    \/ Seconds(a) < Seconds(b)
    \/ Seconds(a) = Seconds(b) /\ a.nanosecond <= b.nanosecond
Before_(a, b) == NotAfter(a, b) /\ a # b

\* next + chrono::Duration::minutes(15)
PlusQuarter(t) ==
    IF t.minute + 15 >= 60
    THEN [PlusOneHour(t) EXCEPT !.minute = t.minute + 15 - 60]
    ELSE [t EXCEPT !.minute = t.minute + 15]

\* the next trigger of the AMSAT task of scheduled_task_handler after its
\* start-up round (src/src/module/scheduled.rs): with_minute and with_second
\* keep the nanoseconds of now
scheduled_task_handler_next_trigger(t) ==
    LET minute == IF t.minute <= 16 THEN 17
                  ELSE IF t.minute <= 31 THEN 32
                  ELSE IF t.minute <= 46 THEN 47
                  ELSE 2
        at_minute == [t EXCEPT !.minute = minute, !.second = 0]
        next == IF minute = 2 /\ t.minute > 46 THEN PlusOneHour(at_minute) ELSE at_minute
    IN  IF NotAfter(next, t) THEN PlusQuarter(next) ELSE next

\* now + chrono::Duration::days(1)
PlusOneDay(t) == [t EXCEPT !.day = t.day + 1]

\* .with_hour(h).with_minute(0).with_second(0).with_nanosecond(0)
AtHour(t, h) == [t EXCEPT !.hour = h, !.minute = 0, !.second = 0, !.nanosecond = 0]

target_hour == 3

\* calculate_next_cleanup_time staying on the day of now
calculate_next_cleanup_time_same_day(t) == AtHour(t, target_hour)

\* ScheduledTaskManager::calculate_next_cleanup_time
calculate_next_cleanup_time(t) ==
    IF t.hour < target_hour
    THEN AtHour(t, target_hour)
    ELSE AtHour(PlusOneDay(t), target_hour)

\* the values of now the next cleanup time is computed for
CleanupTimes ==
    {DateTime(1, h, m, s, n) :
        h \in 0..23, m \in {0, 30, 59}, s \in {0, 59}, n \in {0, 999999999}}

----------------------------------------------------------------------------
(* The worker loops: ScheduledTaskManager (scheduled.rs) and               *)
(* SatelliteUpdater (sat/updater.rs).  Durations are seconds.              *)

\* the tasks start_all spawns, and the task of start_satellite_updater
ManagerWorkers == {"sat", "cleanup"}
RetryWorkers == {"sat", "updater"}
Workers == {"sat", "cleanup", "updater"}

\* how long an update body needs when nothing stops it
BodyDurations == {300, 301}

\* tokio::time::timeout(limit, body): Err(Elapsed) when the body needs longer
Timeout(limit, needed, result) ==
    IF needed > limit
    THEN [ran |-> limit, timed_out |-> TRUE, ok |-> FALSE]
    ELSE [ran |-> needed, timed_out |-> FALSE, ok |-> result]

run_satellite_update_unbounded(needed, result) ==
    [ran |-> needed, timed_out |-> FALSE, ok |-> result]

\* ScheduledTaskManager::run_satellite_update
run_satellite_update(needed, result) ==
    Timeout(timeout_duration, needed, result)

\* the timeout(..).await of SatelliteUpdater::run_update_cycle
run_update_attempt(needed, result) ==
    Timeout(UPDATE_TIMEOUT_SECONDS, needed, result)

RunBody(w, needed, result) ==
    IF w = "sat" THEN run_satellite_update(needed, result)
    ELSE run_update_attempt(needed, result)

\* for attempt in 1..=MAX_RETRIES
InRetryRange(a) == a <= MAX_RETRIES

satellite_update_loop_no_wait(a) ==
    IF a < MAX_RETRIES
    THEN [pc |-> "backoff", sleep |-> 0]
    ELSE [pc |-> "sleeping", sleep |-> 0]

satellite_update_loop_stops(a) ==
    IF a < MAX_RETRIES
    THEN [pc |-> "backoff", sleep |-> retry_sleep_seconds]
    ELSE [pc |-> "stopped", sleep |-> 0]

\* the Err arm of satellite_update_loop: sleep 60 s and retry, or log and
\* fall out of the for loop into the next iteration of the outer loop
satellite_update_loop_on_err(a) ==
    IF a < MAX_RETRIES
    THEN [pc |-> "backoff", sleep |-> retry_sleep_seconds]
    ELSE [pc |-> "sleeping", sleep |-> 0]

\* the end of an attempt of run_update_cycle that did not succeed
run_update_cycle_on_err(a) ==
    IF a < MAX_RETRIES
    THEN [pc |-> "backoff", sleep |-> RETRY_DELAY_SECONDS * a]
    ELSE [pc |-> "sleeping", sleep |-> 0]

OnErr(w, a) ==
    IF w = "sat" THEN satellite_update_loop_on_err(a)
    ELSE run_update_cycle_on_err(a)

\* the futures alive after a timeout(..).await whose body went on running
\* in a task of its own when the limit elapsed
bodies_after_detached(out, alive) == IF out.timed_out THEN alive ELSE alive - 1

\* the futures alive after tokio::time::timeout(limit, body).await returned:
\* the body has completed, or the Timeout that owns it has returned
\* Err(Elapsed) and is dropped with it
bodies_after(out, alive) == alive - 1

start_all_handles_sat_only == <<"sat">>

\* the handles start_all pushes to task_handles
start_all_handles == <<"sat", "cleanup">>

\* no update body has ended yet
NoRun == [needed |-> 0, ran |-> 0, timed_out |-> FALSE, ok |-> FALSE]

----------------------------------------------------------------------------
(* The LoTW and QO-100 feeds: LotwUpdater::update, Qo100Updater::update and *)
(* the render of their renderers.  A snapshot is its fetched_at minute and  *)
(* the data parsed; a PNG is the snapshot it was rendered from.             *)

Feeds == {"lotw", "qo100"}

NoSnapshot == [fetched_at |-> 0 - 1, data |-> "none"]

\* What client.get(url).send().await can meet.  reqwest returns Ok for every
\* response it receives, whatever its status; the body of a 5xx response is
\* the server's error page.
Responses ==
    {[kind |-> "timeout", body |-> "none"],
     [kind |-> "connection_reset", body |-> "none"],
     [kind |-> "status_5xx", body |-> "error_page"],
     [kind |-> "status_200", body |-> "data_a"],
     [kind |-> "status_200", body |-> "data_b"]}

TransientErrors == {"timeout", "connection_reset", "status_5xx"}

\* .send().await.context(..)?.text().await.context(..)?
FetchText(response) ==
    IF response.kind \in {"timeout", "connection_reset"}
    THEN [ok |-> FALSE, text |-> "none"]
    ELSE [ok |-> TRUE, text |-> response.body]

\* parse_lotw_html: every "tbody tr" with 5 cells is a row; a page without
\* such rows is a snapshot with no rows
parse_lotw_html(html, at) ==
    [ok |-> TRUE,
     snapshot |-> [fetched_at |-> at,
                   data |-> IF html = "error_page" THEN "no_rows" ELSE html]]

\* parse_qo100_json: serde_json::from_str::<ClusterResponse>(json)?
parse_qo100_json(json, at) ==
    IF json = "error_page"
    THEN [ok |-> FALSE, snapshot |-> NoSnapshot]
    ELSE [ok |-> TRUE, snapshot |-> [fetched_at |-> at, data |-> json]]

Parse(feed, text, at) ==
    IF feed = "lotw" THEN parse_lotw_html(text, at) ELSE parse_qo100_json(text, at)

RenderOutcomes == {"ok", "png_failed", "copy_failed"}

DEFAULT_IMAGE_DIR == "data/image_cache"

\* latest_path of the renderers: output_dir.join("<feed>_latest.png"), the
\* output_dir being the one LotwUpdater::new and Qo100Updater::new default to
latest_path(feed) == [dir |-> DEFAULT_IMAGE_DIR, file |-> <<feed, "_latest.png">>]

\* lotw_img_path of lotw_query and qo100_img_path of qo100_query
handler_image_path(feed) ==
    IF feed = "lotw"
    THEN [dir |-> "data/image_cache", file |-> <<"lotw", "_latest.png">>]
    ELSE [dir |-> "data/image_cache", file |-> <<"qo100", "_latest.png">>]

\* render leaving <feed>_latest.png as it finds it
render_alias_kept(files, latest, snap, outcome) ==
    IF snap.fetched_at \in files \/ outcome = "png_failed"
    THEN [ok |-> snap.fetched_at \in files, files |-> files, latest |-> latest]
    ELSE [ok |-> outcome = "ok", files |-> files \cup {snap.fetched_at},
          latest |-> latest]

\* LotwRenderer::render / Qo100Renderer::render: the file of the snapshot's
\* minute is reused when it exists; else it is written, <feed>_latest.png is
\* removed and the file is copied to it
render(files, latest, snap, outcome) ==
    IF snap.fetched_at \in files
    THEN [ok |-> TRUE, files |-> files, latest |-> latest]
    ELSE IF outcome = "png_failed"
    THEN [ok |-> FALSE, files |-> files, latest |-> latest]
    ELSE IF outcome = "copy_failed"
    THEN [ok |-> FALSE, files |-> files \cup {snap.fetched_at}, latest |-> NoSnapshot]
    ELSE [ok |-> TRUE, files |-> files \cup {snap.fetched_at}, latest |-> snap]

NoUpdate == [feed |-> "none", response |-> "none", ok |-> FALSE]

----------------------------------------------------------------------------
(* Strings.  A String or &str is the sequence of its characters, each a    *)
(* one-character string; Option<String> is a record.                       *)

UpperCase ==
    <<"A", "B", "C", "D", "E", "F", "G", "H", "I", "J", "K", "L", "M",
      "N", "O", "P", "Q", "R", "S", "T", "U", "V", "W", "X", "Y", "Z">>
LowerCase ==
    <<"a", "b", "c", "d", "e", "f", "g", "h", "i", "j", "k", "l", "m",
      "n", "o", "p", "q", "r", "s", "t", "u", "v", "w", "x", "y", "z">>

\* char::is_whitespace, on the characters that occur
Whitespace == {" ", "\t"}

\* char::is_ascii_punctuation, without the quotes, the backtick and the
\* backslash
AsciiPunctuation ==
    {"!", "#", "$", "%", "&", "(", ")", "*", "+", ",", "-", ".", "/",
     ":", ";", "<", "=", ">", "?", "@", "[", "]", "^", "_", "{", "|", "}", "~"}

NoString == [some |-> FALSE, value |-> <<>>]
Some(s) == [some |-> TRUE, value |-> s]

\* the element of a set of one element
The(S) == CHOOSE x \in S : TRUE

MaxOf(S) == CHOOSE x \in S : \A y \in S : y <= x
MinOf(S) == CHOOSE x \in S : \A y \in S : x <= y

MapChar(c, from, to) ==
    IF \E i \in DOMAIN from : from[i] = c
    THEN to[CHOOSE i \in DOMAIN from : from[i] = c]
    ELSE c

to_uppercase(s) == [i \in DOMAIN s |-> MapChar(s[i], LowerCase, UpperCase)]
to_lowercase(s) == [i \in DOMAIN s |-> MapChar(s[i], UpperCase, LowerCase)]

\* str::trim: without the leading and the trailing whitespace
trim(s) ==
    LET kept == {i \in DOMAIN s : s[i] \notin Whitespace}
    IN  IF kept = {} THEN <<>> ELSE SubSeq(s, MinOf(kept), MaxOf(kept))

\* str::trim_end_matches(c): without every trailing c
trim_end_matches(s, c) ==
    LET kept == {i \in DOMAIN s : s[i] # c}
    IN  IF kept = {} THEN <<>> ELSE SubSeq(s, 1, MaxOf(kept))

\* str::rfind(c): the index of the last c, 0 for None
rfind(s, c) ==
    LET hits == {i \in DOMAIN s : s[i] = c}
    IN  IF hits = {} THEN 0 ELSE MaxOf(hits)

\* s[..idx] and s[idx + 1..] of Rust, for the 1-based index idx of a character
Before(s, idx) == SubSeq(s, 1, idx - 1)
After(s, idx) == SubSeq(s, idx + 1, Len(s))

\* chars().filter(|c| !c.is_ascii_punctuation() && !c.is_whitespace()).collect()
FilterAlnum(s) ==
    LET Kept(c) == c \notin AsciiPunctuation \cup Whitespace
    IN  SelectSeq(s, Kept)

\* str::replace(from, to) for single characters
replace(s, from, to) == [i \in DOMAIN s |-> IF s[i] = from THEN to ELSE s[i]]

\* str::contains(pattern)
contains(s, pattern) ==
    \E i \in 0..(Len(s) - Len(pattern)) : SubSeq(s, i + 1, i + Len(pattern)) = pattern

----------------------------------------------------------------------------
(* AMSAT name parsing (sat/amsat_types.rs) *)

MODE_KEYWORDS ==
    {<<"F", "M">>, <<"S", "S", "T", "V">>, <<"D", "A", "T", "A">>,
     <<"D", "A", "T", "V">>, <<"L", "I", "N", "E", "A", "R">>, <<"L", "I", "N">>,
     <<"I", "M", "A", "G", "E">>, <<"I", "M", "G">>, <<"C", "W">>,
     <<"S", "S", "B">>, <<"D", "I", "G", "I">>, <<"A", "P", "R", "S">>,
     <<"P", "A", "C", "K", "E", "T">>, <<"V", "/", "U">>, <<"U", "/", "V">>,
     <<"H", "/", "U">>, <<"V", "/", "U", " ", "F", "M">>,
     <<"L">>, <<"S">>, <<"X">>, <<"A">>, <<"B">>}

is_mode_keyword(s) == to_uppercase(s) \in MODE_KEYWORDS

ParsedAmsatName(base_name, mode_hint) ==
    [base_name |-> base_name, mode_hint |-> mode_hint]

\* one "if let Some(idx) = trimmed.rfind(c)" block of parse_amsat_name: the
\* candidate after the last c, without the trailing closer if there is one
SplitAt(trimmed, c, closer) ==
    LET idx == rfind(trimmed, c)
        rest == After(trimmed, idx)
        candidate == trim(IF closer = "" THEN rest ELSE trim_end_matches(rest, closer))
    IN  IF idx # 0 /\ is_mode_keyword(candidate)
        THEN [found |-> TRUE,
              name |-> ParsedAmsatName(trim(Before(trimmed, idx)),
                                       Some(to_uppercase(candidate)))]
        ELSE [found |-> FALSE, name |-> ParsedAmsatName(trimmed, NoString)]

\* parse_amsat_name with the hyphen tried before the space
parse_amsat_name_hyphen_first(api_name) ==
    LET trimmed == trim(api_name)
        space == SplitAt(trimmed, " ", "")
        hyphen == SplitAt(trimmed, "-", "")
        bracket == SplitAt(trimmed, "[", "]")
        paren == SplitAt(trimmed, "(", ")")
    IN  IF trimmed = <<>> THEN ParsedAmsatName(<<>>, NoString)
        ELSE IF hyphen.found THEN hyphen.name
        ELSE IF space.found THEN space.name
        ELSE IF bracket.found THEN bracket.name
        ELSE IF paren.found THEN paren.name
        ELSE ParsedAmsatName(trimmed, NoString)

parse_amsat_name(api_name) ==
    LET trimmed == trim(api_name)
        space == SplitAt(trimmed, " ", "")
        hyphen == SplitAt(trimmed, "-", "")
        bracket == SplitAt(trimmed, "[", "]")
        paren == SplitAt(trimmed, "(", ")")
    IN  IF trimmed = <<>> THEN ParsedAmsatName(<<>>, NoString)
        ELSE IF space.found THEN space.name
        ELSE IF hyphen.found THEN hyphen.name
        ELSE IF bracket.found THEN bracket.name
        ELSE IF paren.found THEN paren.name
        ELSE ParsedAmsatName(trimmed, NoString)

\* The api names parse_amsat_name is tried on: a left part, a separator, a
\* token and a closer, in every combination, and the left parts alone.
NameBases ==
    {<<"I", "S", "S">>, <<"A", "O">>, <<"T", "E", "V", "E", "L">>,
     <<"F", "O", "-", "1", "1", "8">>, <<"A", " ", "B", "-", "9">>,
     <<"A", "(", "F", "M", ")">>, <<"X", "[", "L", "]">>,
     <<"I", "S", "S", "-", "F", "M">>}
NameSeparators == {<<" ">>, <<"-">>, <<"[">>, <<"(">>, <<"_">>}
NameTokens ==
    {<<"F", "M">>, <<"f", "m">>, <<"S", "S", "T", "V">>, <<"H", "/", "u">>,
     <<"9", "1">>, <<"1">>, <<"L">>, <<"V", "/", "U", " ", "F", "M">>, <<>>}
NameClosers == {<<>>, <<"]">>, <<")">>, <<"]", "]">>}
\* The scraper hands over trimmed names.
ApiNames ==
    {n \in NameBases \cup
            {b \o s \o t \o c : b \in NameBases, s \in NameSeparators,
                                t \in NameTokens, c \in NameClosers} :
        trim(n) = n}

NoName == [api_name |-> <<>>, done |-> FALSE, parsed |-> ParsedAmsatName(<<>>, NoString)]

\* generate_aliases
generate_aliases(api_name) ==
    LET trimmed == trim(api_name)
        no_sep == FilterAlnum(trimmed)
        spaces == replace(trimmed, "-", " ")
        hyphens == replace(trimmed, " ", "-")
        a1 == IF no_sep # <<>> /\ no_sep # trimmed THEN <<no_sep>> ELSE <<>>
        a2 == IF spaces # trimmed /\ ~(\E i \in DOMAIN a1 : a1[i] = spaces)
              THEN Append(a1, spaces) ELSE a1
    IN  IF hyphens # trimmed /\ ~(\E i \in DOMAIN a2 : a2[i] = hyphens)
        THEN Append(a2, hyphens) ELSE a2

\* AmsatEntry::from_api_name, the fields the search reads
AmsatEntry(api_name) ==
    [api_name |-> api_name,
     aliases |-> generate_aliases(api_name),
     satellite_base_name |-> parse_amsat_name(api_name).base_name]

normalize_for_search(s) == FilterAlnum(to_lowercase(trim(s)))

----------------------------------------------------------------------------
(* The search over the entries (sat/manager.rs).  An f64 score is the      *)
(* fraction num / den it stands for.                                       *)

Score(num, den) == [num |-> num, den |-> den]
ScoreLeq(a, b) == a.num * b.den <= b.num * a.den
ScoreEq(a, b) == a.num * b.den = b.num * a.den
\* f64::min
ScoreMin(a, b) == IF ScoreLeq(a, b) THEN a ELSE b

DEFAULT_THRESHOLD == Score(95, 100)

AmsatSearchResult(entry, match_type, score) ==
    [entry |-> entry, match_type |-> match_type, score |-> score]
NoResult == [some |-> FALSE,
             value |-> AmsatSearchResult(AmsatEntry(<<>>), "None", Score(0, 1))]
SomeResult(entry, match_type, score) ==
    [some |-> TRUE, value |-> AmsatSearchResult(entry, match_type, score)]

\* one round of the loop of strsim::jaro, for the character a[i]: it takes the
\* first unconsumed equal character of b within search_range of its position
JaroStep(a, b, i, st) ==
    LET larger == IF Len(a) >= Len(b) THEN Len(a) ELSE Len(b)
        search_range == (larger \div 2) - 1
        min_bound == IF i - 1 > search_range THEN i - 1 - search_range ELSE 0
        max_bound == IF Len(b) - 1 <= i - 1 + search_range
                     THEN Len(b) - 1 ELSE i - 1 + search_range
        found == {j \in min_bound..max_bound : b[j + 1] = a[i] /\ j \notin st.consumed}
    IN  IF found = {} THEN st
        ELSE The({[consumed |-> st.consumed \cup {j},
                   matches |-> st.matches + 1,
                   transpositions |-> st.transpositions
                                       + (IF j < st.b_match_index THEN 1 ELSE 0),
                   b_match_index |-> j] : j \in {MinOf(found)}})

RECURSIVE JaroScan(_, _, _, _)
JaroScan(a, b, i, st) ==
    IF i > Len(a) THEN st
    ELSE The({JaroScan(a, b, i + 1, next) : next \in {JaroStep(a, b, i, st)}})

\* strsim::jaro
jaro(a, b) ==
    IF Len(a) = 0 /\ Len(b) = 0 THEN Score(1, 1)
    ELSE IF Len(a) = 0 \/ Len(b) = 0 THEN Score(0, 1)
    ELSE IF Len(a) = 1 /\ Len(b) = 1 THEN (IF a = b THEN Score(1, 1) ELSE Score(0, 1))
    ELSE The({IF st.matches = 0 THEN Score(0, 1)
              ELSE Score(st.matches * st.matches * (Len(a) + Len(b))
                             + (st.matches - st.transpositions) * Len(a) * Len(b),
                         3 * Len(a) * Len(b) * st.matches) :
              st \in {JaroScan(a, b, 1, [consumed |-> {}, matches |-> 0,
                                         transpositions |-> 0, b_match_index |-> 0])}})

\* the length of the common prefix of a and b, at most 4
PrefixLength(a, b) ==
    Cardinality({n \in 1..4 : \A k \in 1..n : k <= Len(a) /\ k <= Len(b) /\ a[k] = b[k]})

\* strsim::jaro_winkler: a similarity above 0.7 is raised by a tenth of the
\* rest for each character of the common prefix
jaro_winkler(a, b) ==
    The({The({IF ~ScoreLeq(sim, Score(7, 10))
              THEN Score(10 * sim.num + PrefixLength(x, y) * (sim.den - sim.num),
                         10 * sim.den)
              ELSE sim :
              sim \in {jaro(x, y)}}) :
         x \in {a}, y \in {b}})

\* the aliases of the entry, normalised
AliasesNormalized(entry) ==
    [i \in DOMAIN entry.aliases |-> normalize_for_search(entry.aliases[i])]

\* "for alias in &entry.aliases": the first alias that passes, 0 if none does
FirstAlias(aliases_normalized, Passes(_)) ==
    LET hits == {i \in DOMAIN aliases_normalized : Passes(aliases_normalized[i])}
    IN  IF hits = {} THEN 0 ELSE MinOf(hits)

exact_match_amsat(entry, query_normalized) ==
    LET Equal(alias_normalized) == alias_normalized = query_normalized
    IN  IF normalize_for_search(entry.api_name) = query_normalized
        THEN SomeResult(entry, "ExactApiName", Score(100, 100))
        ELSE IF FirstAlias(AliasesNormalized(entry), Equal) # 0
        THEN SomeResult(entry, "ExactApiName", Score(99, 100))
        ELSE NoResult

base_name_match(entry, query_normalized) ==
    IF normalize_for_search(entry.satellite_base_name) = query_normalized
    THEN SomeResult(entry, "BaseName", Score(95, 100))
    ELSE NoResult

\* len().max(1)
LenMax1(s) == IF Len(s) >= 1 THEN Len(s) ELSE 1

contains_match(entry, query_normalized) ==
    LET fm == <<"f", "m">>
        Within(alias_normalized) ==
            \/ contains(alias_normalized, query_normalized)
            \/ contains(query_normalized, alias_normalized)
        OfAlias(aliases) ==
            The({IF alias # 0
                 THEN SomeResult(entry, "Contains",
                        ScoreMin(Score(Len(query_normalized), LenMax1(aliases[alias])),
                                 Score(89, 100)))
                 ELSE NoResult :
                 alias \in {FirstAlias(aliases, Within)}})
    IN  The({IF Within(api_normalized)
             THEN IF contains(api_normalized, fm) /\ contains(query_normalized, fm)
                  THEN SomeResult(entry, "Contains", Score(98, 100))
                  ELSE SomeResult(entry, "Contains",
                         ScoreMin(Score(Len(query_normalized), LenMax1(api_normalized)),
                                  Score(90, 100)))
             ELSE OfAlias(aliases) :
             api_normalized \in {normalize_for_search(entry.api_name)},
             aliases \in {AliasesNormalized(entry)}})

fuzzy_match_amsat(entry, query_normalized, threshold) ==
    LET Similarity(alias_normalized) == jaro_winkler(alias_normalized, query_normalized)
    IN  The({IF ScoreLeq(threshold, score) THEN SomeResult(entry, "Fuzzy", score)
             ELSE IF \E i \in DOMAIN alias_scores : ScoreLeq(threshold, alias_scores[i])
             THEN SomeResult(entry, "Fuzzy",
                    alias_scores[MinOf({i \in DOMAIN alias_scores :
                                           ScoreLeq(threshold, alias_scores[i])})])
             ELSE IF ScoreLeq(threshold, base_score)
             THEN SomeResult(entry, "Fuzzy", base_score)
             ELSE NoResult :
             score \in {Similarity(normalize_for_search(entry.api_name))},
             alias_scores \in {[i \in DOMAIN entry.aliases |->
                                  Similarity(normalize_for_search(entry.aliases[i]))]},
             base_score \in {Similarity(normalize_for_search(entry.satellite_base_name))}})

\* the phases of search_amsat_entries, in the order they are run
PhaseMatch(phase, entry, query_normalized) ==
    CASE phase = 1 -> exact_match_amsat(entry, query_normalized)
      [] phase = 2 -> base_name_match(entry, query_normalized)
      [] phase = 3 -> contains_match(entry, query_normalized)
      [] phase = 4 -> fuzzy_match_amsat(entry, query_normalized, DEFAULT_THRESHOLD)

\* "for entry in entries { if let Some(result) = ... { results.push(result) } }"
PhaseResults(phase, entries, query_normalized) ==
    LET Matched(result) == result.some
        matched == SelectSeq([i \in DOMAIN entries |->
                                 PhaseMatch(phase, entries[i], query_normalized)],
                             Matched)
    IN  [i \in DOMAIN matched |-> matched[i].value]

\* results.sort_by(|a, b| b.score.partial_cmp(&a.score).unwrap()): a stable
\* sort, the higher score first.  A result's place is behind those of a
\* higher score and those of its own score that were pushed before it.
sort_by_score(results) ==
    LET Ahead(i) == {j \in DOMAIN results :
                        \/ ~ScoreLeq(results[j].score, results[i].score)
                        \/ ScoreEq(results[j].score, results[i].score) /\ j < i}
    IN  [k \in DOMAIN results |->
            results[CHOOSE i \in DOMAIN results : Cardinality(Ahead(i)) = k - 1]]

\* the phases of search_amsat_entries from the given one on: the matches of
\* the first that has some, sorted
RECURSIVE FirstPhase(_, _, _)
FirstPhase(phase, entries, query_normalized) ==
    The({IF results # <<>> \/ phase = 4
         THEN sort_by_score(results)
         ELSE FirstPhase(phase + 1, entries, query_normalized) :
         results \in {PhaseResults(phase, entries, query_normalized)}})

\* search_amsat_entries with every phase's matches gathered
search_amsat_entries_all_phases(query, entries) ==
    The({IF query_normalized = <<>> THEN <<>>
         ELSE The({sort_by_score(results) :
                   results \in {PhaseResults(1, entries, query_normalized)
                                 \o PhaseResults(2, entries, query_normalized)
                                 \o PhaseResults(3, entries, query_normalized)
                                 \o PhaseResults(4, entries, query_normalized)}}) :
         query_normalized \in {normalize_for_search(query)}})

\* search_amsat_entries with the results left in the order of the entries
search_amsat_entries_unsorted(query, entries) ==
    The({IF query_normalized = <<>> THEN <<>>
         ELSE The({IF exact # <<>> THEN exact
                   ELSE IF base # <<>> THEN base
                   ELSE IF within # <<>> THEN within
                   ELSE PhaseResults(4, entries, query_normalized) :
                   exact \in {PhaseResults(1, entries, query_normalized)},
                   base \in {PhaseResults(2, entries, query_normalized)},
                   within \in {PhaseResults(3, entries, query_normalized)}}) :
         query_normalized \in {normalize_for_search(query)}})

\* search_amsat_entries with the base-name phase not run on the last entry
search_amsat_entries_last_skipped(query, entries) ==
    The({IF query_normalized = <<>> THEN <<>>
         ELSE The({IF exact # <<>> THEN sort_by_score(exact)
                   ELSE IF base # <<>> THEN sort_by_score(base)
                   ELSE FirstPhase(3, entries, query_normalized) :
                   exact \in {PhaseResults(1, entries, query_normalized)},
                   base \in {PhaseResults(2, SubSeq(entries, 1, Len(entries) - 1),
                                           query_normalized)}}) :
         query_normalized \in {normalize_for_search(query)}})

search_amsat_entries(query, entries) ==
    The({IF query_normalized = <<>> THEN <<>>
         ELSE FirstPhase(1, entries, query_normalized) :
         query_normalized \in {normalize_for_search(query)}})

\* The inputs of the search: the entries as a slice in the order they are
\* handed over, and the queries.
SearchNames ==
    {<<"I", "S", "S", "-", "F", "M">>, <<"I", "S", "S", "-", "S", "S", "T", "V">>,
     <<"A", "O", "-", "9", "1">>, <<"A", "O", "-", "7">>,
     <<"F", "O", "-", "1", "1", "8", "[", "H", "/", "u", "]">>, <<"I", "S", "S">>}

\* make_test_entries of the tests of manager.rs
make_test_entries ==
    <<<<"I", "S", "S", "-", "F", "M">>, <<"I", "S", "S", "-", "S", "S", "T", "V">>,
      <<"I", "S", "S", "-", "D", "A", "T", "A">>, <<"I", "S", "S", "-", "D", "A", "T", "V">>,
      <<"A", "O", "-", "9", "1">>, <<"A", "O", "-", "9", "2">>,
      <<"R", "S", "-", "4", "4">>,
      <<"F", "O", "-", "1", "1", "8", "[", "H", "/", "u", "]">>>>

\* every slice of at most MaxSearchEntries different names, and the test's
SearchSlices ==
    {make_test_entries} \cup
    UNION {{p \in [1..k -> SearchNames] : \A i, j \in 1..k : i # j => p[i] # p[j]} :
              k \in 0..MaxSearchEntries}

Entries(slice) == [i \in DOMAIN slice |-> AmsatEntry(slice[i])]

Queries ==
    {<<>>, <<" ", "-">>,
     <<"I", "S", "S", "-", "F", "M">>, <<"i", "s", "s", "f", "m">>,
     <<"i", "s", "s">>, <<" ", "I", "s", "s", " ">>, <<"a", "o", "9", "1">>,
     <<"a", "o">>, <<"f", "m">>, <<"F", "O", "-", "1", "1", "8">>,
     <<"f", "o", "1", "1", "8", "u", "h">>, <<"i", "s", "s", "s", "s", "t", "v", "2">>,
     <<"Z", "Z", "Z", "Z", "Z">>}

NoSearch == [query |-> <<>>, entries |-> <<>>, done |-> FALSE, results |-> <<>>]

----------------------------------------------------------------------------
(* The query facade (module/handler.rs) *)

\* CONFIG.get() and its media_server_url
Configs == {"unset", "no_url", "url"}

\* what reqwest::get(https://<media_server_url>/health) can meet
HealthOutcomes ==
    {[kind |-> "status", status |-> 200], [kind |-> "status", status |-> 204],
     [kind |-> "status", status |-> 404], [kind |-> "status", status |-> 503],
     [kind |-> "error", status |-> 0]}

\* StatusCode::is_success
is_success(status) == 200 <= status /\ status <= 299

is_media_server_running(config, health) ==
    /\ config = "url"
    /\ health.kind = "status"
    /\ is_success(health.status)

\* the GETs to /health one call of is_media_server_running sends
HealthGets(config) == IF config = "url" THEN 1 ELSE 0

MessageResponse(success, message, content_type, health_gets, health_ok) ==
    [success |-> success, message |-> message, content_type |-> content_type,
     health_gets |-> health_gets, health_ok |-> health_ok]

\* str::trim_start
trim_start(s) ==
    LET kept == {i \in DOMAIN s : s[i] \notin Whitespace}
    IN  IF kept = {} THEN <<>> ELSE SubSeq(s, MinOf(kept), Len(s))

\* parse_command: the captures of ^\s*/(\S+)\s*(.*)$
parse_command(content) ==
    LET s == trim_start(content)
        body == IF s = <<>> THEN <<>> ELSE Tail(s)
        blanks == {i \in DOMAIN body : body[i] \in Whitespace}
        command_end == IF blanks = {} THEN Len(body) ELSE MinOf(blanks) - 1
    IN  IF s = <<>> \/ Head(s) # "/" \/ command_end = 0
        THEN [some |-> FALSE, command |-> <<>>, args |-> <<>>]
        ELSE [some |-> TRUE, command |-> SubSeq(body, 1, command_end),
              args |-> trim_start(SubSeq(body, command_end + 1, Len(body)))]

\* amsat_query answering without the health check
amsat_query_unchecked(query, entries, config, health, render_ok) ==
    LET search_results == search_amsat_entries(trim(query), entries)
    IN  IF trim(query) = <<>>
        THEN MessageResponse(FALSE, "usage", "TEXT", 0, FALSE)
        ELSE IF search_results = <<>>
        THEN MessageResponse(FALSE, "no_match", "TEXT", 0, FALSE)
        ELSE IF render_ok
        THEN MessageResponse(TRUE, "file_path", "IMAGE", 0, FALSE)
        ELSE MessageResponse(TRUE, "internal_error", "TEXT", 0, FALSE)

\* amsat_query reporting a failed render as a failure
amsat_query_render_fails(query, entries, config, health, render_ok) ==
    IF ~is_media_server_running(config, health)
    THEN MessageResponse(FALSE, "media_server_down", "TEXT", HealthGets(config), FALSE)
    ELSE IF trim(query) = <<>>
    THEN MessageResponse(FALSE, "usage", "TEXT", HealthGets(config), TRUE)
    ELSE IF search_amsat_entries(trim(query), entries) = <<>>
    THEN MessageResponse(FALSE, "no_match", "TEXT", HealthGets(config), TRUE)
    ELSE IF render_ok
    THEN MessageResponse(TRUE, "file_path", "IMAGE", HealthGets(config), TRUE)
    ELSE MessageResponse(FALSE, "internal_error", "TEXT", HealthGets(config), TRUE)

\* MessageHandler::amsat_query
amsat_query(query, entries, config, health, render_ok) ==
    LET running == is_media_server_running(config, health)
        search_results == search_amsat_entries(trim(query), entries)
    IN  IF ~running
        THEN MessageResponse(FALSE, "media_server_down", "TEXT", HealthGets(config), FALSE)
        ELSE IF trim(query) = <<>>
        THEN MessageResponse(FALSE, "usage", "TEXT", HealthGets(config), TRUE)
        ELSE IF search_results = <<>>
        THEN MessageResponse(FALSE, "no_match", "TEXT", HealthGets(config), TRUE)
        ELSE IF render_ok
        THEN MessageResponse(TRUE, "file_path", "IMAGE", HealthGets(config), TRUE)
        ELSE MessageResponse(TRUE, "internal_error", "TEXT", HealthGets(config), TRUE)

\* latest_image_query answering with the image whenever the file exists
latest_image_query_unchecked(image_exists, config, health) ==
    IF image_exists
    THEN MessageResponse(TRUE, "file_path", "IMAGE", 0, FALSE)
    ELSE MessageResponse(FALSE, "image_not_found_or_media_server_down", "TEXT", 0, FALSE)

\* the "dxw" arm of router, lotw_query and qo100_query: the latest image of
\* the feed, if the file exists and the media server runs
latest_image_query(image_exists, config, health) ==
    IF image_exists /\ is_media_server_running(config, health)
    THEN MessageResponse(TRUE, "file_path", "IMAGE", HealthGets(config), TRUE)
    ELSE MessageResponse(FALSE, "image_not_found_or_media_server_down", "TEXT",
                         IF image_exists THEN HealthGets(config) ELSE 0, FALSE)

QueryCommands == {<<"q">>, <<"q", "u", "e", "r", "y">>}
ImageCommands ==
    {<<"d", "x", "w">>, <<"l", "o", "t", "w">>, <<"q", "o", "1", "0", "0">>,
     <<"q", "o", "-", "1", "0", "0">>}

\* MessageHandler::router
router(command, args, entries, config, health, image_exists, render_ok) ==
    IF command \in QueryCommands
    THEN amsat_query(args, entries, config, health, render_ok)
    ELSE IF command \in ImageCommands
    THEN latest_image_query(image_exists, config, health)
    ELSE MessageResponse(FALSE, "unknown_command", "TEXT", 0, FALSE)

\* MessageHandler::handle_message
handle_message(content, entries, config, health, image_exists, render_ok) ==
    LET parsed == parse_command(content)
    IN  IF ~parsed.some
        THEN MessageResponse(FALSE, "command_parse_failed", "TEXT", 0, FALSE)
        ELSE IF parsed.command = <<>>
        THEN MessageResponse(FALSE, "no_command_found", "TEXT", 0, FALSE)
        ELSE router(parsed.command, parsed.args, entries, config, health,
                    image_exists, render_ok)

\* the messages the facade is tried on: a command and its arguments
CommandWords ==
    {<<"/", "q">>, <<"/", "q", "u", "e", "r", "y">>, <<"/", "l", "o", "t", "w">>,
     <<"/", "q", "o", "1", "0", "0">>, <<"/", "d", "x", "w">>, <<"/", "x">>,
     <<"q">>, <<"/">>}
CommandArgs ==
    {<<>>, <<" ">>, <<" ", "I", "S", "S">>, <<" ", "i", "s", "s", "-", "f", "m">>,
     <<" ", "Z", "Z", "Z", "Z", "Z">>}
Contents ==
    {lead \o word \o args : lead \in {<<>>, <<" ">>}, word \in CommandWords,
                            args \in CommandArgs}

NoRequest ==
    [content |-> <<>>, entries |-> <<>>, config |-> "unset",
     health |-> [kind |-> "error", status |-> 0],
     image_exists |-> FALSE, render_ok |-> FALSE]
NoResponse == MessageResponse(FALSE, "none", "TEXT", 0, FALSE)

----------------------------------------------------------------------------
(* The image cache of the satellite queries (module/renderer.rs).  A file  *)
(* name is the floored time it carries and its name part.                  *)

\* SatelliteRenderer::normalize_sat_name
normalize_sat_name(name) == to_lowercase(FilterAlnum(name))

\* [String]::join(sep)
RECURSIVE join(_, _)
join(names, sep) ==
    IF names = <<>> THEN <<>>
    ELSE IF Len(names) = 1 THEN names[1]
    ELSE names[1] \o <<sep>> \o join(Tail(names), sep)

\* format!("{}", n) for n below ten
Digit(n) == <<"0", "1", "2", "3", "4", "5", "6", "7", "8", "9">>[n + 1]

\* generate_amsat_filename with the minute of now left as it is
generate_amsat_filename_exact_minute(at, results) ==
    [time_str |-> at,
     name_part |-> join([i \in DOMAIN results |->
                            normalize_sat_name(results[i].entry.api_name)], "_")]

\* SatelliteRenderer::generate_amsat_filename: sat_<time_str>_<name_part>.png,
\* the time floored to the quarter of the hour
generate_amsat_filename(at, results) ==
    The({[time_str |-> (at \div 15) * 15,
          name_part |-> IF names = <<>> THEN <<"e", "m", "p", "t", "y">>
                        ELSE IF Len(names) > 3
                        THEN join(SubSeq(names, 1, 2), "_")
                               \o <<"_", "a", "n", "d", "_", Digit(Len(names) - 2),
                                     "_", "m", "o", "r", "e">>
                        ELSE join(names, "_")] :
         names \in {[i \in 1..(IF Len(results) < 5 THEN Len(results) ELSE 5) |->
                        normalize_sat_name(results[i].entry.api_name)]}})

NoPath == [time_str |-> -1, name_part |-> <<>>]

\* SatelliteRenderer::render_amsat_results over the files of image_cache:
\* whether it returned Ok, the path, whether the renderer ran, the files left
render_amsat_results(files, at, results, render_ok) ==
    The({IF output_path \in files
         THEN [ok |-> TRUE, path |-> output_path, ran |-> FALSE, files |-> files]
         ELSE IF render_ok
         THEN [ok |-> TRUE, path |-> output_path, ran |-> TRUE,
               files |-> files \cup {output_path}]
         ELSE [ok |-> FALSE, path |-> NoPath, ran |-> TRUE, files |-> files] :
         output_path \in {generate_amsat_filename(at, results)}})

\* the orders in which the map hands over its entries, and the queries
RenderSlices ==
    {<<<<"I", "S", "S", "-", "S", "S", "T", "V">>, <<"I", "S", "S", "-", "F", "M">>,
       <<"A", "O", "-", "9", "1">>>>,
     <<<<"I", "S", "S", "-", "F", "M">>, <<"I", "S", "S", "-", "S", "S", "T", "V">>,
       <<"A", "O", "-", "9", "1">>>>,
     <<<<"X", "W", "-", "2", "A">>, <<"X", "W", "-", "2", "B">>,
       <<"X", "W", "-", "2", "C">>, <<"X", "W", "-", "2", "D">>,
       <<"X", "W", "-", "2", "E">>, <<"A", "O", "-", "2", "7">>>>,
     make_test_entries}
RenderQueries ==
    {<<>>, <<"i", "s", "s">>, <<"i", "s">>, <<"a", "o", "9", "1">>,
     <<"x", "w">>, <<"2">>, <<"Z", "Z", "Z", "Z", "Z">>}
RenderHealths == {[kind |-> "status", status |-> 200], [kind |-> "status", status |-> 503]}

\* SatelliteManager::search_amsat_entries(query) and amsat_query(query) for
\* every order of the entries and every query, worked out once
RenderResults ==
    [slice \in RenderSlices |->
        [query \in RenderQueries |-> search_amsat_entries(trim(query), Entries(slice))]]
RenderResponses ==
    [slice \in RenderSlices |->
        [query \in RenderQueries |->
            [health \in RenderHealths |->
                [render_ok \in BOOLEAN |->
                    amsat_query(query, Entries(slice), "url", health, render_ok)]]]]

----------------------------------------------------------------------------
(* The frequency column of the QO-100 spots (qo100/parser.rs).  An f64 is  *)
(* the number of tenths it stands for, so 29_041.7 is 290417.              *)

\* f64::round: to the nearest integer, a half away from zero
round(tenths) ==
    IF tenths >= 0 THEN (tenths + 5) \div 10 ELSE 0 - ((5 - tenths) \div 10)

\* "as i64" without the rounding: the fraction is dropped
truncate(tenths) ==
    IF tenths >= 0 THEN tenths \div 10 ELSE 0 - ((0 - tenths) \div 10)

\* format!("{}", n) for n >= 0
RECURSIVE Decimal(_)
Decimal(n) == IF n < 10 THEN <<Digit(n)>> ELSE Append(Decimal(n \div 10), Digit(n % 10))

\* format_frequency without the rounding
format_frequency_truncating(freq_hz) ==
    IF truncate(freq_hz) >= 10489500 /\ truncate(freq_hz) < 10490000
    THEN <<".">> \o Decimal(truncate(freq_hz) - 10489000)
    ELSE <<"-", "-">>

format_frequency(freq_hz) ==
    LET freq == round(freq_hz)
    IN  IF freq >= 10489500 /\ freq < 10490000
        THEN <<".">> \o Decimal(freq - 10489000)
        ELSE <<"-", "-">>

\* the frequencies format_frequency is tried on, in tenths: those of its
\* test, and those around the two ends of the range, tenth by tenth
Frequencies ==
    {104897400, 104895200, 104899000, 290417, 104900000, 104895000, 0, 0 - 4, 0 - 5,
     104897404, 104897405, 1048950000}
        \cup (104894985..104895015) \cup (104899985..104900015)

NoFrequency == [freq_hz |-> 0, freq |-> <<>>, done |-> FALSE]

FreqIdle == freq_call = NoFrequency

----------------------------------------------------------------------------
(* The lock of the entry map (sat/manager.rs): update_all_satellites taken  *)
(* apart at its await points, next to a search.                            *)

\* the phases of update_all_satellites in which a request is in flight:
\* scrape_satellite_list().await and batch_fetch_satellites(..).await
NetworkPhases == {"scraping", "fetching"}

\* the write guard taken before the batch fetch
holds_write_lock_from_fetch(phase) == phase \in {"fetching", "merging"}

\* "let mut entries = self.amsat_entries.write().await" lives from the head
\* of the block of Step 3 to its end
holds_write_lock(phase) == phase = "merging"

\* "let entries = self.amsat_entries.read().await" of save_amsat_cache
holds_read_lock(phase) == phase = "saving"

\* RwLock::read granted whatever guards are alive
read_granted_always(lock) == TRUE

\* RwLock::read is granted while no write guard is alive
read_granted(lock) == ~lock.writer

\* RwLock::write is granted while no guard is alive
write_granted(lock) == ~lock.writer /\ lock.readers = {}

\* what batch_fetch_satellites returns for a name in the cycles followed
LockFetchResults(name) ==
    IF name = "ISS-FM"
    THEN {[ok |-> TRUE, listed |-> TRUE, reports |-> <<Report("BA1AA", 10)>>],
          [ok |-> TRUE, listed |-> TRUE, reports |-> <<Report("BA1AA", BadTime)>>]}
    ELSE {[ok |-> TRUE, listed |-> TRUE, reports |-> <<Report("BG3CC", 70)>>],
          [ok |-> FALSE, listed |-> TRUE, reports |-> <<>>]}

NoResults == [n \in Names |-> NotListed]
NoUpdateTask == [phase |-> "idle", results |-> NoResults, left |-> <<>>]
NoSearchTask == [phase |-> "idle", read |-> FALSE, entries |-> EmptyMap]

\* no update cycle begun, no search run, no guard alive
LockIdle ==
    /\ update_task = NoUpdateTask
    /\ rw_lock = [writer |-> FALSE, readers |-> {}]
    /\ search_task = NoSearchTask
    /\ released = {}

\* no /q served, no image written
RenderIdle ==
    /\ render_now = 0
    /\ render_entries = <<>>
    /\ image_cache = {}
    /\ renders = <<>>

----------------------------------------------------------------------------
(* The alias <feed>_latest.png while a render is under way                  *)
(* (module/renderer.rs), next to the handler that serves it.               *)

\* no render under way, no alias written, no query served
NoRenderTask == [phase |-> "idle", image |-> 0]
\* the snapshots a feed is rendered from, by the number of their output file
MaxAliasImages == 2
AliasImages == 1..MaxAliasImages
\* what /health answers while the alias is asked for
AliasHealth == {[kind |-> "status", status |-> 200], [kind |-> "status", status |-> 503]}
\* the outcomes of a file operation
FileOutcomes == {"ok", "failed"}
NoLatestQuery == [feed |-> "none", published |-> FALSE, image_exists |-> FALSE,
                  response |-> NoResponse]
AliasIdle ==
    /\ render_task = [f \in Feeds |-> NoRenderTask]
    /\ output_files = [f \in Feeds |-> {}]
    /\ latest_file = [f \in Feeds |-> 0]
    /\ published = [f \in Feeds |-> FALSE]
    /\ latest_query = NoLatestQuery

----------------------------------------------------------------------------
(* The connection manager of the frontend                                   *)
(* (rinko-frontend/src/backend/connection_manager.rs) with the webhook      *)
(* handler that reports messages through it (frontend/qq.rs).               *)

\* successful connects explored
MaxConnects == 2

\* the tasks main spawns, and a webhook handler
ConnTasks == {"reconnect", "heartbeat", "subscription", "handler"}
\* the callers of mark_disconnected
MarkCallers == {"heartbeat", "subscription", "handler"}

\* BackendConnectionManager::new, before main calls initialize
ConnIdle ==
    /\ conn_state = "Disconnected"
    /\ client = 0
    /\ client_lock = "free"
    /\ backend_up = TRUE
    /\ broken_upto = 0
    /\ connects = 0
    /\ conn_pc = [t \in ConnTasks \cup {"main"} |-> "new"]
    /\ held = [t \in ConnTasks |-> 0]
    /\ mark_calls = {}

\* mark_disconnected returning only while a connect is under way
returns_when_connecting(state) == state = "Connecting"

\* the first test of mark_disconnected: a caller that does not find
\* Connected returns
returns_early(state) == state # "Connected"

\* a request sent on client k can fail, or succeed
can_fail(k, up, broken) == ~up \/ k <= broken
can_succeed(k, up, broken) == up

----------------------------------------------------------------------------
(* The registry of frontends of the backend (rinko-backend/src/service.rs) *)

FrontendIds == {"qq-1", "qq-2"}
MaxSubscriptions == 3
NoSend == [frontend_id |-> "none", ok |-> FALSE, subscription |-> 0]

\* BotBackendService::new
RegIdle ==
    /\ frontends = [id \in FrontendIds |-> 0]
    /\ subscriptions = <<>>
    /\ last_send = NoSend

LateIdle == AliasIdle /\ ConnIdle /\ RegIdle

MoreIdle == RenderIdle /\ FreqIdle /\ LockIdle /\ LateIdle

----------------------------------------------------------------------------
(* Initial states *)

\* LotwUpdater::new, Qo100Updater::new: no snapshot, no image written
FeedIdle ==
    /\ feed_minute = 0
    /\ snapshot = [f \in Feeds |-> NoSnapshot]
    /\ image_files = [f \in Feeds |-> {}]
    /\ latest_png = [f \in Feeds |-> NoSnapshot]
    /\ feed_updates = 0
    /\ last_update = NoUpdate

\* no name parsed, no search run, no message handled
QueryIdle ==
    /\ name_call = NoName
    /\ search = NoSearch
    /\ request = NoRequest
    /\ message_response = NoResponse

\* the values of now the next-trigger computations are tried on
TriggerTimes ==
    {DateTime(d, h, m, s, n) :
        d \in {1}, h \in {0, 10, 23}, m \in 0..59, s \in {0, 30}, n \in {0, 5}}

NoTrigger == DateTime(0, 0, 0, 0, 0)

\* SatelliteManager::new: no entries, no cache file written yet.  The manager
\* of scheduled tasks and the trigger computations are left alone.
Init ==
    /\ now \in StartTimes
    /\ amsat_entries = EmptyMap
    /\ cache_file = NoFile
    /\ cycles = 0
    /\ last_cycle = NoCycle
    /\ trigger_now = NoTrigger
    /\ next_trigger = [of |-> "none", at |-> NoTrigger]
    /\ mgr = "new"
    /\ task_handles = <<>>
    /\ aborted = {}
    /\ sd_next = 0
    /\ pc = [w \in Workers |-> "unspawned"]
    /\ attempt = [w \in Workers |-> 0]
    /\ sleep_for = [w \in Workers |-> 0]
    /\ calls = [w \in Workers |-> 0]
    /\ cycle_result = [w \in Workers |-> "none"]
    /\ prev_result = [w \in Workers |-> "none"]
    /\ last_run = [w \in Workers |-> NoRun]
    /\ bodies = [w \in Workers |-> 0]
    /\ FeedIdle
    /\ QueryIdle
    /\ MoreIdle

\* a value of now, no trigger computed for it yet
TriggerInit ==
    /\ trigger_now \in TriggerTimes
    /\ next_trigger = [of |-> "none", at |-> NoTrigger]
    /\ now = 60
    /\ amsat_entries = EmptyMap
    /\ cache_file = NoFile
    /\ cycles = 0
    /\ last_cycle = NoCycle
    /\ mgr = "new"
    /\ task_handles = <<>>
    /\ aborted = {}
    /\ sd_next = 0
    /\ pc = [w \in Workers |-> "unspawned"]
    /\ attempt = [w \in Workers |-> 0]
    /\ sleep_for = [w \in Workers |-> 0]
    /\ calls = [w \in Workers |-> 0]
    /\ cycle_result = [w \in Workers |-> "none"]
    /\ prev_result = [w \in Workers |-> "none"]
    /\ last_run = [w \in Workers |-> NoRun]
    /\ bodies = [w \in Workers |-> 0]
    /\ FeedIdle
    /\ QueryIdle
    /\ MoreIdle

\* ScheduledTaskManager::new: no task spawned, task_handles empty
WorkerInit ==
    /\ mgr = "new"
    /\ task_handles = <<>>
    /\ aborted = {}
    /\ sd_next = 0
    /\ pc = [w \in Workers |-> "unspawned"]
    /\ attempt = [w \in Workers |-> 0]
    /\ sleep_for = [w \in Workers |-> 0]
    /\ calls = [w \in Workers |-> 0]
    /\ cycle_result = [w \in Workers |-> "none"]
    /\ prev_result = [w \in Workers |-> "none"]
    /\ last_run = [w \in Workers |-> NoRun]
    /\ bodies = [w \in Workers |-> 0]
    /\ now = 60
    /\ amsat_entries = EmptyMap
    /\ cache_file = NoFile
    /\ cycles = 0
    /\ last_cycle = NoCycle
    /\ trigger_now = NoTrigger
    /\ next_trigger = [of |-> "none", at |-> NoTrigger]
    /\ FeedIdle
    /\ QueryIdle
    /\ MoreIdle

\* the store, the triggers and the workers as constructed
CoreIdle ==
    /\ now = 60
    /\ amsat_entries = EmptyMap
    /\ cache_file = NoFile
    /\ cycles = 0
    /\ last_cycle = NoCycle
    /\ trigger_now = NoTrigger
    /\ next_trigger = [of |-> "none", at |-> NoTrigger]
    /\ mgr = "new"
    /\ task_handles = <<>>
    /\ aborted = {}
    /\ sd_next = 0
    /\ pc = [w \in Workers |-> "unspawned"]
    /\ attempt = [w \in Workers |-> 0]
    /\ sleep_for = [w \in Workers |-> 0]
    /\ calls = [w \in Workers |-> 0]
    /\ cycle_result = [w \in Workers |-> "none"]
    /\ prev_result = [w \in Workers |-> "none"]
    /\ last_run = [w \in Workers |-> NoRun]
    /\ bodies = [w \in Workers |-> 0]

FeedInit ==
    /\ feed_minute = 0
    /\ snapshot = [f \in Feeds |-> NoSnapshot]
    /\ image_files = [f \in Feeds |-> {}]
    /\ latest_png = [f \in Feeds |-> NoSnapshot]
    /\ feed_updates = 0
    /\ last_update = NoUpdate
    /\ CoreIdle
    /\ QueryIdle
    /\ MoreIdle

\* parse_amsat_name is about to be called on a name of ApiNames
NameInit ==
    /\ name_call \in {[NoName EXCEPT !.api_name = n] : n \in ApiNames}
    /\ search = NoSearch
    /\ request = NoRequest
    /\ message_response = NoResponse
    /\ CoreIdle
    /\ FeedIdle
    /\ MoreIdle

\* search_amsat_entries is about to be called
SearchInit ==
    /\ search \in {[NoSearch EXCEPT !.query = q, !.entries = slice] :
                        q \in Queries, slice \in SearchSlices}
    /\ name_call = NoName
    /\ request = NoRequest
    /\ message_response = NoResponse
    /\ CoreIdle
    /\ FeedIdle
    /\ MoreIdle

\* the entries the manager of the facade holds
HandlerSlices == {<<>>, make_test_entries}

\* a message has arrived at the facade
HandlerInit ==
    /\ request \in [content : Contents, entries : HandlerSlices, config : Configs,
                     health : HealthOutcomes, image_exists : BOOLEAN,
                     render_ok : BOOLEAN]
    /\ message_response = NoResponse
    /\ name_call = NoName
    /\ search = NoSearch
    /\ CoreIdle
    /\ FeedIdle
    /\ MoreIdle

\* the facade is up with its entries stored; nothing was asked yet
RenderInit ==
    /\ render_now = 0
    /\ render_entries \in RenderSlices
    /\ image_cache = {}
    /\ renders = <<>>
    /\ CoreIdle
    /\ FeedIdle
    /\ QueryIdle
    /\ FreqIdle
    /\ LockIdle
    /\ LateIdle

\* format_frequency is about to be called on a frequency of Frequencies
FreqInit ==
    /\ freq_call \in {[NoFrequency EXCEPT !.freq_hz = f] : f \in Frequencies}
    /\ CoreIdle
    /\ FeedIdle
    /\ QueryIdle
    /\ RenderIdle
    /\ LockIdle
    /\ LateIdle

\* the cleanup loop is about to compute its next trigger
CleanupTimeInit ==
    /\ trigger_now \in CleanupTimes
    /\ next_trigger = [of |-> "none", at |-> NoTrigger]
    /\ now = 60
    /\ amsat_entries = EmptyMap
    /\ cache_file = NoFile
    /\ cycles = 0
    /\ last_cycle = NoCycle
    /\ mgr = "new"
    /\ task_handles = <<>>
    /\ aborted = {}
    /\ sd_next = 0
    /\ pc = [w \in Workers |-> "unspawned"]
    /\ attempt = [w \in Workers |-> 0]
    /\ sleep_for = [w \in Workers |-> 0]
    /\ calls = [w \in Workers |-> 0]
    /\ cycle_result = [w \in Workers |-> "none"]
    /\ prev_result = [w \in Workers |-> "none"]
    /\ last_run = [w \in Workers |-> NoRun]
    /\ bodies = [w \in Workers |-> 0]
    /\ FeedIdle
    /\ QueryIdle
    /\ MoreIdle

\* SatelliteManager::new, before the first update cycle
LockInit ==
    /\ update_task = NoUpdateTask
    /\ rw_lock = [writer |-> FALSE, readers |-> {}]
    /\ search_task = NoSearchTask
    /\ released = {EmptyMap}
    /\ CoreIdle
    /\ FeedIdle
    /\ QueryIdle
    /\ RenderIdle
    /\ FreqIdle
    /\ LateIdle

\* the parts modelled first, at rest
EarlyIdle == CoreIdle /\ FeedIdle /\ QueryIdle /\ RenderIdle /\ FreqIdle /\ LockIdle

\* the renderers and the handler are up; no feed image was rendered yet
AliasInit ==
    /\ AliasIdle
    /\ EarlyIdle
    /\ ConnIdle
    /\ RegIdle

\* BackendConnectionManager::new in main, the backend reachable or not
ConnInit ==
    /\ conn_state = "Disconnected"
    /\ client = 0
    /\ client_lock = "free"
    /\ backend_up \in BOOLEAN
    /\ broken_upto = 0
    /\ connects = 0
    /\ conn_pc = [t \in ConnTasks \cup {"main"} |-> "new"]
    /\ held = [t \in ConnTasks |-> 0]
    /\ mark_calls = {}
    /\ EarlyIdle
    /\ AliasIdle
    /\ RegIdle

\* BotBackendService::new: no frontend has subscribed yet
RegInit ==
    /\ frontends = [id \in FrontendIds |-> 0]
    /\ subscriptions = <<>>
    /\ last_send = NoSend
    /\ EarlyIdle
    /\ AliasIdle
    /\ ConnIdle

----------------------------------------------------------------------------
(* Actions of the entry store *)

\* time passes
Tick ==
    /\ \E d \in TickSteps :
        /\ now + d <= 60 + MaxTicks * 48 * 60
        /\ now' = now + d
    /\ UNCHANGED <<amsat_entries, cache_file, cycles, last_cycle, trigger_vars, worker_vars, ext_vars>>

\* initialize(): load amsat_cache.json when it exists (a process start)
initialize ==
    /\ cache_file.exists
    /\ amsat_entries' = cache_file.entries
    /\ UNCHANGED <<now, cache_file, cycles, last_cycle, trigger_vars, worker_vars, ext_vars>>

\* update_all_satellites when scrape_satellite_list fails: "?" returns the error
UpdateScrapeFails ==
    /\ cycles < MaxCycles
    /\ cycles' = cycles + 1
    /\ last_cycle' = [scrape |-> "failed", merged |-> FALSE]
    /\ UNCHANGED <<now, amsat_entries, cache_file, trigger_vars, worker_vars, ext_vars>>

\* update_all_satellites with a scraped name list and the batch fetch results.
\* A name the scraper did not list has no fetch result (NotListed).
update_all_satellites ==
    /\ cycles < MaxCycles
    /\ cycles' = cycles + 1
    /\ \E iss \in FetchResults("ISS-FM") \cup {NotListed} :
       \E ao \in FetchResults("AO-91") \cup {NotListed} :
       \E iss_order \in MergeOrders(iss.reports) :
       \E ao_order \in MergeOrders(ao.reports) :
        LET scraped == {n \in Names : (IF n = "ISS-FM" THEN iss ELSE ao) # NotListed}
            results == [n \in scraped |-> IF n = "ISS-FM" THEN iss ELSE ao]
            orders == [n \in scraped |-> IF n = "ISS-FM" THEN iss_order ELSE ao_order]
        IN  \E iteration \in Perms(scraped) :
            \E merged \in {MergeAll(amsat_entries, iteration, results, orders, now)} :
                /\ last_cycle' = [scrape |-> IF scraped = {} THEN "empty" ELSE "names",
                                  merged |-> merged.ok]
                /\ amsat_entries' = merged.entries
                /\ cache_file' = CacheAfterCycle(merged, cache_file)
    /\ UNCHANGED <<now, trigger_vars, worker_vars, ext_vars>>

----------------------------------------------------------------------------
(* The next-trigger computations applied *)

\* the first statements of satellite_update_loop
CalculateNextUpdateTime ==
    /\ next_trigger.of = "none"
    /\ next_trigger' = [of |-> "scheduled",
                        at |-> calculate_next_update_time(trigger_now)]
    /\ UNCHANGED <<trigger_now, store_vars, worker_vars, ext_vars>>

\* the first statements of run_scheduled_loop (update interval <= 15 minutes)
CalculateFixedMinuteTrigger ==
    /\ next_trigger.of = "none"
    /\ next_trigger' = [of |-> "updater",
                        at |-> calculate_fixed_minute_trigger(trigger_now)]
    /\ UNCHANGED <<trigger_now, store_vars, worker_vars, ext_vars>>

\* the computation of next_trigger in the loop of scheduled_task_handler
ScheduledTaskHandlerNextTrigger ==
    /\ next_trigger.of = "none"
    /\ next_trigger' = [of |-> "legacy",
                        at |-> scheduled_task_handler_next_trigger(trigger_now)]
    /\ UNCHANGED <<trigger_now, store_vars, worker_vars, ext_vars>>

\* the first statement of image_cleanup_loop
CalculateNextCleanupTime ==
    /\ next_trigger.of = "none"
    /\ next_trigger' = [of |-> "cleanup",
                        at |-> calculate_next_cleanup_time(trigger_now)]
    /\ UNCHANGED <<trigger_now, store_vars, worker_vars, ext_vars>>

CleanupTimeNext == CalculateNextCleanupTime

----------------------------------------------------------------------------
(* Actions of the scheduled-task manager and of the workers.  A task that  *)
(* was aborted is not polled again, so every step of a worker w requires   *)
(* w \notin aborted.                                                       *)

\* start_all: spawn the satellite update task and the image cleanup task
start_all ==
    /\ mgr = "new"
    /\ mgr' = "started"
    /\ task_handles' = task_handles \o start_all_handles
    /\ \E perform_initial \in BOOLEAN :
        /\ pc' = [pc EXCEPT !["sat"] = IF perform_initial THEN "initial" ELSE "sleeping",
                            !["cleanup"] = "sleeping"]
        /\ bodies' = [bodies EXCEPT !["sat"] = IF perform_initial THEN @ + 1 ELSE @]
    /\ UNCHANGED <<aborted, sd_next, attempt, sleep_for, calls, cycle_result,
                   last_run, prev_result, store_vars, trigger_vars, ext_vars>>

\* start_satellite_updater: with an initial update the first cycle runs at once
start_satellite_updater ==
    /\ pc["updater"] = "unspawned"
    /\ \E initial_update \in BOOLEAN :
        IF initial_update
        THEN /\ pc' = [pc EXCEPT !["updater"] = "body"]
             /\ attempt' = [attempt EXCEPT !["updater"] = 1]
             /\ calls' = [calls EXCEPT !["updater"] = 1]
             /\ cycle_result' = [cycle_result EXCEPT !["updater"] = "running"]
             /\ bodies' = [bodies EXCEPT !["updater"] = @ + 1]
        ELSE /\ pc' = [pc EXCEPT !["updater"] = "sleeping"]
             /\ UNCHANGED <<attempt, calls, cycle_result, bodies>>
    /\ UNCHANGED <<mgr, task_handles, aborted, sd_next, sleep_for, last_run,
                   prev_result, store_vars, trigger_vars, ext_vars>>

\* the initial update of the satellite task: one call, an error is only logged
InitialUpdateEnds ==
    /\ pc["sat"] = "initial"
    /\ "sat" \notin aborted
    /\ \E needed \in BodyDurations, result \in BOOLEAN :
        /\ last_run' = [last_run EXCEPT !["sat"] =
                           [needed |-> needed] @@ run_satellite_update(needed, result)]
        /\ bodies' = [bodies EXCEPT !["sat"] =
                         bodies_after(run_satellite_update(needed, result), @)]
    /\ pc' = [pc EXCEPT !["sat"] = "sleeping"]
    /\ UNCHANGED <<mgr, task_handles, aborted, sd_next, attempt, sleep_for, calls,
                   cycle_result, prev_result, store_vars, trigger_vars, ext_vars>>

\* the sleep until the next trigger ends: the cycle's first attempt starts
TriggerFires(w) ==
    /\ w \in RetryWorkers
    /\ pc[w] = "sleeping"
    /\ w \notin aborted
    /\ pc' = [pc EXCEPT ![w] = "body"]
    /\ attempt' = [attempt EXCEPT ![w] = 1]
    /\ calls' = [calls EXCEPT ![w] = 1]
    /\ cycle_result' = [cycle_result EXCEPT ![w] = "running"]
    /\ prev_result' = [prev_result EXCEPT ![w] = cycle_result[w]]
    /\ bodies' = [bodies EXCEPT ![w] = @ + 1]
    /\ UNCHANGED <<mgr, task_handles, aborted, sd_next, sleep_for, last_run,
                   store_vars, trigger_vars, ext_vars>>

\* an attempt ends: Ok breaks the retry loop, an error or a timeout does not
AttemptEnds(w) ==
    /\ w \in RetryWorkers
    /\ pc[w] = "body"
    /\ w \notin aborted
    /\ \E needed \in BodyDurations, result \in BOOLEAN :
        LET out == RunBody(w, needed, result)
        IN  /\ last_run' = [last_run EXCEPT ![w] = [needed |-> needed] @@ out]
            /\ bodies' = [bodies EXCEPT ![w] = bodies_after(out, @)]
            /\ IF out.ok
               THEN /\ pc' = [pc EXCEPT ![w] = "sleeping"]
                    /\ sleep_for' = [sleep_for EXCEPT ![w] = 0]
                    /\ cycle_result' = [cycle_result EXCEPT ![w] = "ok"]
               ELSE /\ pc' = [pc EXCEPT ![w] = OnErr(w, attempt[w]).pc]
                    /\ sleep_for' = [sleep_for EXCEPT ![w] = OnErr(w, attempt[w]).sleep]
                    /\ cycle_result' = [cycle_result EXCEPT ![w] =
                            IF OnErr(w, attempt[w]).pc = "backoff"
                            THEN "running" ELSE "failed"]
    /\ UNCHANGED <<mgr, task_handles, aborted, sd_next, attempt, calls,
                   prev_result, store_vars, trigger_vars, ext_vars>>

\* the sleep between attempts ends: the for loop takes its next value
BackoffEnds(w) ==
    /\ w \in RetryWorkers
    /\ pc[w] = "backoff"
    /\ w \notin aborted
    /\ sleep_for' = [sleep_for EXCEPT ![w] = 0]
    /\ IF InRetryRange(attempt[w] + 1)
       THEN /\ pc' = [pc EXCEPT ![w] = "body"]
            /\ attempt' = [attempt EXCEPT ![w] = attempt[w] + 1]
            /\ calls' = [calls EXCEPT ![w] = calls[w] + 1]
            /\ bodies' = [bodies EXCEPT ![w] = @ + 1]
            /\ UNCHANGED cycle_result
       ELSE /\ pc' = [pc EXCEPT ![w] = "sleeping"]
            /\ cycle_result' = [cycle_result EXCEPT ![w] = "failed"]
            /\ UNCHANGED <<attempt, calls, bodies>>
    /\ UNCHANGED <<mgr, task_handles, aborted, sd_next, last_run,
                   prev_result, store_vars, trigger_vars, ext_vars>>

\* image_cleanup_loop: the sleep until 03:00 ends and run_image_cleanup starts
CleanupFires ==
    /\ pc["cleanup"] = "sleeping"
    /\ "cleanup" \notin aborted
    /\ pc' = [pc EXCEPT !["cleanup"] = "cleaning"]
    /\ UNCHANGED <<bodies, mgr, task_handles, aborted, sd_next, attempt, sleep_for, calls,
                   cycle_result, last_run, prev_result, store_vars, trigger_vars, ext_vars>>

\* run_image_cleanup returns; Ok and Err are both only logged
CleanupEnds ==
    /\ pc["cleanup"] = "cleaning"
    /\ "cleanup" \notin aborted
    /\ \E result \in BOOLEAN :
        cycle_result' = [cycle_result EXCEPT !["cleanup"] =
                            IF result THEN "ok" ELSE "failed"]
    /\ pc' = [pc EXCEPT !["cleanup"] = "sleeping"]
    /\ UNCHANGED <<bodies, mgr, task_handles, aborted, sd_next, attempt, sleep_for, calls,
                   last_run, prev_result, store_vars, trigger_vars, ext_vars>>

\* shutdown(self) is entered
ShutdownBegins ==
    /\ mgr \in {"new", "started"}
    /\ mgr' = "shutting_down"
    /\ sd_next' = 1
    /\ UNCHANGED <<bodies, task_handles, aborted, pc, attempt, sleep_for, calls,
                   cycle_result, last_run, prev_result, store_vars, trigger_vars, ext_vars>>

\* for handle in self.task_handles { handle.abort() }
ShutdownAborts ==
    /\ mgr = "shutting_down"
    /\ sd_next <= Len(task_handles)
    /\ aborted' = aborted \cup {task_handles[sd_next]}
    /\ bodies' = [bodies EXCEPT ![task_handles[sd_next]] = 0]
    /\ sd_next' = sd_next + 1
    /\ UNCHANGED <<mgr, task_handles, pc, attempt, sleep_for, calls,
                   cycle_result, last_run, prev_result, store_vars, trigger_vars, ext_vars>>

\* shutdown returns
ShutdownEnds ==
    /\ mgr = "shutting_down"
    /\ sd_next > Len(task_handles)
    /\ mgr' = "down"
    /\ UNCHANGED <<bodies, task_handles, aborted, sd_next, pc, attempt, sleep_for, calls,
                   cycle_result, last_run, prev_result, store_vars, trigger_vars, ext_vars>>

SatWorker ==
    InitialUpdateEnds \/ TriggerFires("sat") \/ AttemptEnds("sat") \/ BackoffEnds("sat")

UpdaterWorker ==
    TriggerFires("updater") \/ AttemptEnds("updater") \/ BackoffEnds("updater")

CleanupWorker == CleanupFires \/ CleanupEnds

WorkerNext ==
    \/ start_all
    \/ start_satellite_updater
    \/ InitialUpdateEnds
    \/ \E w \in RetryWorkers : TriggerFires(w)
    \/ \E w \in RetryWorkers : AttemptEnds(w)
    \/ \E w \in RetryWorkers : BackoffEnds(w)
    \/ CleanupFires
    \/ CleanupEnds
    \/ ShutdownBegins
    \/ ShutdownAborts
    \/ ShutdownEnds

----------------------------------------------------------------------------
(* Actions of the feed updaters *)

FeedTick ==
    /\ feed_minute < MaxFeedMinutes
    /\ feed_minute' = feed_minute + 1
    /\ UNCHANGED <<snapshot, image_files, latest_png, feed_updates, last_update,
                   store_vars, trigger_vars, worker_vars, query_vars,
                   more_vars>>

\* LotwUpdater::update / Qo100Updater::update: fetch, parse, render, publish
update ==
    /\ feed_updates < MaxFeedUpdates
    /\ feed_updates' = feed_updates + 1
    /\ \E feed \in Feeds, response \in Responses, outcome \in RenderOutcomes :
        LET fetched == FetchText(response)
            parsed == Parse(feed, fetched.text, feed_minute)
            rendered == render(image_files[feed], latest_png[feed],
                               parsed.snapshot, outcome)
        IN  IF ~fetched.ok \/ ~parsed.ok
            THEN /\ last_update' = [feed |-> feed, response |-> response.kind,
                                    ok |-> FALSE]
                 /\ UNCHANGED <<snapshot, image_files, latest_png>>
            ELSE /\ image_files' = [image_files EXCEPT ![feed] = rendered.files]
                 /\ latest_png' = [latest_png EXCEPT ![feed] = rendered.latest]
                 /\ snapshot' = IF rendered.ok
                                THEN [snapshot EXCEPT ![feed] = parsed.snapshot]
                                ELSE snapshot
                 /\ last_update' = [feed |-> feed, response |-> response.kind,
                                    ok |-> rendered.ok]
    /\ UNCHANGED <<feed_minute, store_vars, trigger_vars, worker_vars, query_vars,
                   more_vars>>

FeedNext ==
    \/ FeedTick
    \/ update

\* parse_amsat_name(api_name)
ParseAmsatName ==
    /\ ~name_call.done
    /\ name_call' = [name_call EXCEPT !.done = TRUE,
                                      !.parsed = parse_amsat_name(name_call.api_name)]
    /\ UNCHANGED <<search, request, message_response, store_vars, trigger_vars, worker_vars,
                   feed_vars, more_vars>>

\* search_amsat_entries(query, entries)
SearchAmsatEntries ==
    /\ ~search.done
    /\ search' = [search EXCEPT !.done = TRUE,
                                !.results = search_amsat_entries(search.query,
                                                                 Entries(search.entries))]
    /\ UNCHANGED <<name_call, request, message_response, store_vars, trigger_vars, worker_vars,
                   feed_vars, more_vars>>

\* MessageHandler::handle_message(msg)
HandleMessage ==
    /\ message_response = NoResponse
    /\ message_response' = handle_message(request.content, Entries(request.entries),
                                  request.config, request.health,
                                  request.image_exists, request.render_ok)
    /\ UNCHANGED <<name_call, search, request, store_vars, trigger_vars, worker_vars,
                   feed_vars, more_vars>>

NameNext == ParseAmsatName

SearchNext == SearchAmsatEntries

HandlerNext == HandleMessage

----------------------------------------------------------------------------
(* update_all_satellites step by step, and a search next to it *)

\* the updater passes from its phase to the next, leaving the map as entries:
\* the guards of the phase it leaves are dropped, those of the phase it
\* enters are awaited and taken
Enter(phase, entries) ==
    \E kept \in {[writer |-> /\ rw_lock.writer
                             /\ holds_write_lock(update_task.phase)
                             /\ holds_write_lock(phase),
                   readers |-> IF holds_read_lock(update_task.phase)
                                    /\ holds_read_lock(phase)
                               THEN rw_lock.readers
                               ELSE rw_lock.readers \ {"updater"}]} :
        /\ (holds_write_lock(phase) /\ ~kept.writer) => write_granted(kept)
        /\ (holds_read_lock(phase) /\ "updater" \notin kept.readers)
                => read_granted(kept)
        /\ rw_lock' = [writer |-> holds_write_lock(phase),
                       readers |-> IF holds_read_lock(phase)
                                   THEN kept.readers \cup {"updater"}
                                   ELSE kept.readers]
        /\ released' = IF rw_lock.writer /\ ~holds_write_lock(phase)
                       THEN released \cup {entries}
                       ELSE released

\* update_all_satellites is called: Step 1, the scrape, is sent
UpdateBegins ==
    /\ update_task.phase = "idle"
    /\ cycles < MaxLockCycles
    /\ cycles' = cycles + 1
    /\ update_task' = [NoUpdateTask EXCEPT !.phase = "scraping"]
    /\ Enter("scraping", amsat_entries)
    /\ UNCHANGED <<now, amsat_entries, cache_file, last_cycle, search_task, lock_rest>>

\* scrape_satellite_list().await returns: Err ends the cycle, Ok sends the
\* batch fetch of Step 2
ScrapeEnds ==
    /\ update_task.phase = "scraping"
    /\ \E ok \in BOOLEAN :
         /\ update_task' = [update_task EXCEPT !.phase = IF ok THEN "fetching" ELSE "idle"]
         /\ Enter(IF ok THEN "fetching" ELSE "idle", amsat_entries)
         /\ last_cycle' = IF ok THEN last_cycle
                          ELSE [scrape |-> "failed", merged |-> FALSE]
    /\ UNCHANGED <<now, amsat_entries, cache_file, cycles, search_task, lock_rest>>

\* batch_fetch_satellites(..).await returns; Step 3 asks for the write guard
FetchEnds ==
    /\ update_task.phase = "fetching"
    /\ \E iss \in LockFetchResults("ISS-FM"), ao \in LockFetchResults("AO-91") :
       \E iteration \in Perms(Names) :
         update_task' = [phase |-> "awaiting_write",
                         results |-> [n \in Names |-> IF n = "ISS-FM" THEN iss ELSE ao],
                         left |-> iteration]
    /\ Enter("awaiting_write", amsat_entries)
    /\ UNCHANGED <<store_vars, search_task, lock_rest>>

\* self.amsat_entries.write().await is granted
WriteGranted ==
    /\ update_task.phase = "awaiting_write"
    /\ update_task' = [update_task EXCEPT !.phase = "merging"]
    /\ Enter("merging", amsat_entries)
    /\ UNCHANGED <<store_vars, search_task, lock_rest>>

\* one turn of "for (api_name, fetch_result) in fetch_results"; the Err of
\* merge_reports(..)? ends the cycle and drops the guard
MergeEntry ==
    /\ update_task.phase = "merging"
    /\ update_task.left # <<>>
    /\ \E name \in {Head(update_task.left)} :
       \E order \in MergeOrders(update_task.results[name].reports) :
       \E one \in {MergeOne(amsat_entries, name, update_task.results[name], order, now)} :
         /\ amsat_entries' = one.entries
         /\ IF one.ok
            THEN /\ update_task' = [update_task EXCEPT !.left = Tail(@)]
                 /\ Enter("merging", one.entries)
                 /\ UNCHANGED last_cycle
            ELSE /\ update_task' = [update_task EXCEPT !.phase = "idle"]
                 /\ Enter("idle", one.entries)
                 /\ last_cycle' = [scrape |-> "names", merged |-> FALSE]
    /\ UNCHANGED <<now, cache_file, cycles, search_task, lock_rest>>

\* the block of Step 3 ends and the guard is dropped; Step 4 asks for a read
\* guard to save the map
MergeEnds ==
    /\ update_task.phase = "merging"
    /\ update_task.left = <<>>
    /\ update_task' = [update_task EXCEPT !.phase = "saving"]
    /\ Enter("saving", amsat_entries)
    /\ last_cycle' = [scrape |-> "names", merged |-> TRUE]
    /\ UNCHANGED <<now, amsat_entries, cache_file, cycles, search_task, lock_rest>>

\* save_amsat_cache writes the map and update_all_satellites returns
SaveEnds ==
    /\ update_task.phase = "saving"
    /\ cache_file' = save_amsat_cache(amsat_entries)
    /\ update_task' = [update_task EXCEPT !.phase = "idle"]
    /\ Enter("idle", amsat_entries)
    /\ UNCHANGED <<now, amsat_entries, cycles, last_cycle, search_task, lock_rest>>

\* search_amsat_entries: the read guard is granted and the entries are read
SearchBegins ==
    /\ search_task.phase = "idle"
    /\ read_granted(rw_lock)
    /\ search_task' = [phase |-> "reading", read |-> TRUE, entries |-> amsat_entries]
    /\ rw_lock' = [rw_lock EXCEPT !.readers = @ \cup {"search"}]
    /\ UNCHANGED <<store_vars, update_task, released, lock_rest>>

\* search_amsat_entries returns and its guard is dropped
SearchEnds ==
    /\ search_task.phase = "reading"
    /\ search_task' = [search_task EXCEPT !.phase = "idle"]
    /\ rw_lock' = [rw_lock EXCEPT !.readers = @ \ {"search"}]
    /\ UNCHANGED <<store_vars, update_task, released, lock_rest>>

LockNext ==
    \/ UpdateBegins \/ ScrapeEnds \/ FetchEnds \/ WriteGranted \/ MergeEntry
    \/ MergeEnds \/ SaveEnds \/ SearchBegins \/ SearchEnds

----------------------------------------------------------------------------
(* LotwRenderer::render and Qo100Renderer::render one file operation at a   *)
(* time, and lotw_query / qo100_query next to them                          *)

\* render is called with a snapshot: a cache hit returns at once, else the
\* svg is built
RenderBegins ==
    \E f \in Feeds, image \in AliasImages :
        /\ render_task[f].phase = "idle"
        /\ render_task' = [render_task EXCEPT ![f] =
               IF image \in output_files[f]
               THEN NoRenderTask
               ELSE [phase |-> "png", image |-> image]]
        /\ UNCHANGED <<output_files, latest_file, published, latest_query, alias_rest>>

\* render_svg_to_png(&svg, &output_path).await?
RenderSvgToPng ==
    \E f \in Feeds, outcome \in FileOutcomes :
        /\ render_task[f].phase = "png"
        /\ IF outcome = "ok"
           THEN /\ output_files' = [output_files EXCEPT ![f] = @ \cup {render_task[f].image}]
                /\ render_task' = [render_task EXCEPT ![f].phase = "remove"]
           ELSE /\ render_task' = [render_task EXCEPT ![f] = NoRenderTask]
                /\ UNCHANGED output_files
        /\ UNCHANGED <<latest_file, published, latest_query, alias_rest>>

\* if latest_path.exists() { remove_file(&latest_path).await.ok(); }
RemoveLatest ==
    \E f \in Feeds, outcome \in FileOutcomes :
        /\ render_task[f].phase = "remove"
        /\ latest_file' = [latest_file EXCEPT ![f] = IF outcome = "ok" THEN 0 ELSE @]
        /\ render_task' = [render_task EXCEPT ![f].phase = "copy"]
        /\ UNCHANGED <<output_files, published, latest_query, alias_rest>>

\* tokio::fs::copy(&output_path, &latest_path).await.context(..)?
CopyToLatest ==
    \E f \in Feeds, outcome \in FileOutcomes :
        /\ render_task[f].phase = "copy"
        /\ IF outcome = "ok"
           THEN /\ latest_file' = [latest_file EXCEPT ![f] = render_task[f].image]
                /\ published' = [published EXCEPT ![f] = TRUE]
           ELSE UNCHANGED <<latest_file, published>>
        /\ render_task' = [render_task EXCEPT ![f] = NoRenderTask]
        /\ UNCHANGED <<output_files, latest_query, alias_rest>>

\* MessageHandler::lotw_query / qo100_query, at any moment of a render
LatestQuery ==
    \E f \in Feeds, health \in AliasHealth :
        /\ latest_query' =
               [feed |-> f, published |-> published[f],
                image_exists |-> latest_file[f] # 0,
                response |-> latest_image_query(latest_file[f] # 0, "url", health)]
        /\ UNCHANGED <<render_task, output_files, latest_file, published, alias_rest>>

AliasNext ==
    \/ RenderBegins \/ RenderSvgToPng \/ RemoveLatest \/ CopyToLatest \/ LatestQuery

----------------------------------------------------------------------------
(* The connection manager: initialize, the reconnect, heartbeat and         *)
(* subscription tasks, a webhook handler, mark_disconnected                 *)

\* manager.initialize().await, then the three tasks are spawned and the
\* webhook server is started
Initialize ==
    /\ conn_pc["main"] = "new"
    /\ IF backend_up
       THEN /\ connects' = connects + 1
            /\ client' = connects + 1
            /\ conn_state' = "Connected"
       ELSE /\ conn_state' = "Disconnected"
            /\ UNCHANGED <<connects, client>>
    /\ conn_pc' = [t \in ConnTasks \cup {"main"} |->
                     IF t = "main" THEN "running"
                     ELSE IF t = "handler" THEN "idle" ELSE "sleep"]
    /\ UNCHANGED <<client_lock, backend_up, broken_upto, held, mark_calls, conn_rest>>

\* the backend becomes unreachable: every connection made so far is cut
BackendGoesDown ==
    /\ backend_up
    /\ backend_up' = FALSE
    /\ broken_upto' = connects
    /\ UNCHANGED <<conn_state, client, client_lock, connects, conn_pc, held,
                   mark_calls, conn_rest>>

BackendComesUp ==
    /\ ~backend_up
    /\ backend_up' = TRUE
    /\ UNCHANGED <<conn_state, client, client_lock, broken_upto, connects, conn_pc,
                   held, mark_calls, conn_rest>>

\* the reconnect task after its sleep of 10 s: under one write guard of the
\* state, it goes on only from Disconnected, and sets Connecting
ReconnectWakes ==
    /\ conn_pc["reconnect"] = "sleep"
    /\ IF conn_state # "Disconnected"
       THEN UNCHANGED <<conn_state, conn_pc>>
       ELSE /\ conn_state' = "Connecting"
            /\ conn_pc' = [conn_pc EXCEPT !["reconnect"] = "try_connect"]
    /\ UNCHANGED <<client, client_lock, backend_up, broken_upto, connects, held,
                   mark_calls, conn_rest>>

\* self.try_connect().await; on Err the state is set back to Disconnected
ReconnectTryConnect ==
    /\ conn_pc["reconnect"] = "try_connect"
    /\ IF backend_up
       THEN /\ connects < MaxConnects
            /\ connects' = connects + 1
            /\ held' = [held EXCEPT !["reconnect"] = connects + 1]
            /\ conn_pc' = [conn_pc EXCEPT !["reconnect"] = "store"]
            /\ UNCHANGED conn_state
       ELSE /\ conn_state' = "Disconnected"
            /\ conn_pc' = [conn_pc EXCEPT !["reconnect"] = "sleep"]
            /\ UNCHANGED <<connects, held>>
    /\ UNCHANGED <<client, client_lock, backend_up, broken_upto, mark_calls, conn_rest>>

\* *self.client.write().await = Some(client)
ReconnectStoresClient ==
    /\ conn_pc["reconnect"] = "store"
    /\ client_lock = "free"
    /\ client' = held["reconnect"]
    /\ conn_pc' = [conn_pc EXCEPT !["reconnect"] = "set_connected"]
    /\ UNCHANGED <<conn_state, client_lock, backend_up, broken_upto, connects, held,
                   mark_calls, conn_rest>>

\* *self.state.write().await = ConnectionState::Connected
ReconnectSetsConnected ==
    /\ conn_pc["reconnect"] = "set_connected"
    /\ conn_state' = "Connected"
    /\ conn_pc' = [conn_pc EXCEPT !["reconnect"] = "sleep"]
    /\ held' = [held EXCEPT !["reconnect"] = 0]
    /\ UNCHANGED <<client, client_lock, backend_up, broken_upto, connects,
                   mark_calls, conn_rest>>

\* the times the state was set to Connected so far: every client built but
\* the one the reconnect task is about to store or has just stored
established ==
    IF conn_pc["reconnect"] \in {"store", "set_connected"} THEN connects - 1 ELSE connects

\* where a task goes on when mark_disconnected returns; the handler drops
\* its guard of the client at the end of its if let
AfterMark(t) == IF t = "handler" THEN "idle" ELSE "sleep"
LockAfterMark(t) == IF t = "handler" THEN "free" ELSE client_lock

\* mark_disconnected, its block under the write guard of the state
MarkCheck(t) ==
    /\ conn_pc[t] = "mark"
    /\ mark_calls' = mark_calls \cup
           {[task |-> t, lost |-> held[t], during |-> established,
             transitioned |-> ~returns_early(conn_state)]}
    /\ IF returns_early(conn_state)
       THEN /\ conn_pc' = [conn_pc EXCEPT ![t] = AfterMark(t)]
            /\ client_lock' = LockAfterMark(t)
            /\ held' = [held EXCEPT ![t] = 0]
            /\ UNCHANGED conn_state
       ELSE /\ conn_state' = "Disconnected"
            /\ conn_pc' = [conn_pc EXCEPT ![t] = "clear"]
            /\ UNCHANGED <<client_lock, held>>
    /\ UNCHANGED <<client, backend_up, broken_upto, connects, conn_rest>>

\* mark_disconnected, *self.client.write().await = None: the guard is
\* granted once no other guard of the client is alive
MarkClear(t) ==
    /\ conn_pc[t] = "clear"
    /\ client_lock = "free"
    /\ client' = 0
    /\ conn_pc' = [conn_pc EXCEPT ![t] = AfterMark(t)]
    /\ held' = [held EXCEPT ![t] = 0]
    /\ UNCHANGED <<conn_state, client_lock, backend_up, broken_upto, connects,
                   mark_calls, conn_rest>>

MarkDisconnectedChecks == \E t \in MarkCallers : MarkCheck(t)
MarkDisconnectedClears == \E t \in MarkCallers : MarkClear(t)

\* the heartbeat and the subscription task read the state and, when it is
\* Connected, go on to clone the client
ReadsState(t) ==
    /\ conn_pc[t] = "sleep"
    /\ conn_pc' = [conn_pc EXCEPT ![t] =
                     IF conn_state = "Connected" THEN "read_client" ELSE "sleep"]
    /\ UNCHANGED <<conn_state, client, client_lock, backend_up, broken_upto,
                   connects, held, mark_calls, conn_rest>>

\* self.client.read().await.clone(): with None the task sleeps again
ClonesClient(t) ==
    /\ conn_pc[t] = "read_client"
    /\ client_lock = "free"
    /\ held' = [held EXCEPT ![t] = client]
    /\ conn_pc' = [conn_pc EXCEPT ![t] = IF client = 0 THEN "sleep" ELSE "rpc"]
    /\ UNCHANGED <<conn_state, client, client_lock, backend_up, broken_upto,
                   connects, mark_calls, conn_rest>>

HeartbeatWakes == ReadsState("heartbeat")
HeartbeatClonesClient == ClonesClient("heartbeat")

\* client.heartbeat(status).await: Err leads to mark_disconnected
HeartbeatEnds ==
    \E ok \in BOOLEAN :
        /\ conn_pc["heartbeat"] = "rpc"
        /\ IF ok THEN can_succeed(held["heartbeat"], backend_up, broken_upto)
                 ELSE can_fail(held["heartbeat"], backend_up, broken_upto)
        /\ conn_pc' = [conn_pc EXCEPT !["heartbeat"] = IF ok THEN "sleep" ELSE "mark"]
        /\ held' = [held EXCEPT !["heartbeat"] = IF ok THEN 0 ELSE @]
        /\ UNCHANGED <<conn_state, client, client_lock, backend_up, broken_upto,
                       connects, mark_calls, conn_rest>>

SubscriptionChecks == ReadsState("subscription")
SubscriptionClonesClient == ClonesClient("subscription")

\* subscription_client.subscribe_commands(platforms).await: Ok gives the
\* stream, Err leads to mark_disconnected
SubscribeEnds ==
    \E ok \in BOOLEAN :
        /\ conn_pc["subscription"] = "rpc"
        /\ IF ok THEN can_succeed(held["subscription"], backend_up, broken_upto)
                 ELSE can_fail(held["subscription"], backend_up, broken_upto)
        /\ conn_pc' = [conn_pc EXCEPT !["subscription"] = IF ok THEN "stream" ELSE "mark"]
        /\ UNCHANGED <<conn_state, client, client_lock, backend_up, broken_upto,
                       connects, held, mark_calls, conn_rest>>

\* stream.message().await gives Ok(None) or Err: the loop is left and
\* mark_disconnected is called
StreamEnds ==
    /\ conn_pc["subscription"] = "stream"
    /\ can_fail(held["subscription"], backend_up, broken_upto)
    /\ conn_pc' = [conn_pc EXCEPT !["subscription"] = "mark"]
    /\ UNCHANGED <<conn_state, client, client_lock, backend_up, broken_upto,
                   connects, held, mark_calls, conn_rest>>

\* handle_group_at_message: manager.state().await; when not Connected the
\* message is processed locally
HandlerReadsState ==
    /\ conn_pc["handler"] = "idle"
    /\ conn_pc' = [conn_pc EXCEPT !["handler"] =
                     IF conn_state = "Connected" THEN "lock_client" ELSE "idle"]
    /\ UNCHANGED <<conn_state, client, client_lock, backend_up, broken_upto,
                   connects, held, mark_calls, conn_rest>>

\* if let Some(client) = &mut *client_lock.write().await: the write guard
\* lives to the end of the if let
HandlerLocksClient ==
    /\ conn_pc["handler"] = "lock_client"
    /\ client_lock = "free"
    /\ IF client = 0
       THEN /\ conn_pc' = [conn_pc EXCEPT !["handler"] = "idle"]
            /\ UNCHANGED <<client_lock, held>>
       ELSE /\ conn_pc' = [conn_pc EXCEPT !["handler"] = "report"]
            /\ client_lock' = "handler"
            /\ held' = [held EXCEPT !["handler"] = client]
    /\ UNCHANGED <<conn_state, client, backend_up, broken_upto, connects,
                   mark_calls, conn_rest>>

\* client.report_message(..).await under the guard: Ok returns and drops it,
\* Err calls manager.mark_disconnected().await with the guard alive
HandlerReportEnds ==
    \E ok \in BOOLEAN :
        /\ conn_pc["handler"] = "report"
        /\ IF ok THEN can_succeed(held["handler"], backend_up, broken_upto)
                 ELSE can_fail(held["handler"], backend_up, broken_upto)
        /\ conn_pc' = [conn_pc EXCEPT !["handler"] = IF ok THEN "idle" ELSE "mark"]
        /\ client_lock' = IF ok THEN "free" ELSE client_lock
        /\ held' = [held EXCEPT !["handler"] = IF ok THEN 0 ELSE @]
        /\ UNCHANGED <<conn_state, client, backend_up, broken_upto, connects,
                       mark_calls, conn_rest>>

ConnNext ==
    \/ Initialize \/ BackendGoesDown \/ BackendComesUp
    \/ ReconnectWakes \/ ReconnectTryConnect \/ ReconnectStoresClient
    \/ ReconnectSetsConnected
    \/ MarkDisconnectedChecks \/ MarkDisconnectedClears
    \/ HeartbeatWakes \/ HeartbeatClonesClient \/ HeartbeatEnds
    \/ SubscriptionChecks \/ SubscriptionClonesClient \/ SubscribeEnds \/ StreamEnds
    \/ HandlerReadsState \/ HandlerLocksClient \/ HandlerReportEnds

----------------------------------------------------------------------------
(* The registry of frontends: subscribe_commands with the monitor task it   *)
(* spawns, and send_command_to_frontend                                     *)

\* subscribe_commands: a channel is made, its sender is stored under the
\* frontend_id in place of any earlier one, and the monitor is spawned
SubscribeCommands ==
    \E id \in FrontendIds :
        /\ Len(subscriptions) < MaxSubscriptions
        /\ subscriptions' = Append(subscriptions,
               [frontend_id |-> id, open |-> TRUE, monitor |-> "waiting"])
        /\ frontends' = [frontends EXCEPT ![id] = Len(subscriptions) + 1]
        /\ UNCHANGED <<last_send, reg_rest>>

\* the stream of a subscription ends: its receiver is dropped
ReceiverDropped ==
    \E n \in DOMAIN subscriptions :
        /\ subscriptions[n].open
        /\ subscriptions' = [subscriptions EXCEPT ![n].open = FALSE]
        /\ UNCHANGED <<frontends, last_send, reg_rest>>

\* the monitor task: tx.closed().await has returned, and
\* frontends.remove(&frontend_id) is run under the write guard
MonitorRemoves ==
    \E n \in DOMAIN subscriptions :
        /\ ~subscriptions[n].open
        /\ subscriptions[n].monitor = "waiting"
        /\ frontends' = [frontends EXCEPT ![subscriptions[n].frontend_id] = 0]
        /\ subscriptions' = [subscriptions EXCEPT ![n].monitor = "done"]
        /\ UNCHANGED <<last_send, reg_rest>>

\* send_command_to_frontend: Err when the frontend_id is not stored or the
\* receiver of the sender stored is gone
SendCommandToFrontend ==
    \E id \in FrontendIds :
        /\ last_send' =
               [frontend_id |-> id,
                ok |-> frontends[id] # 0 /\ subscriptions[frontends[id]].open,
                subscription |-> frontends[id]]
        /\ UNCHANGED <<frontends, subscriptions, reg_rest>>

RegNext ==
    \/ SubscribeCommands \/ ReceiverDropped \/ MonitorRemoves \/ SendCommandToFrontend

----------------------------------------------------------------------------
(* Actions of the satellite queries and their image cache *)

RenderTick ==
    /\ render_now < 7 * MaxRenderTicks
    /\ render_now' = render_now + 7
    /\ UNCHANGED <<render_entries, image_cache, renders, store_vars, trigger_vars,
                   worker_vars, feed_vars, query_vars, freq_vars,
                   lock_vars, late_vars>>

\* MessageHandler::amsat_query(query) with the render it leads to
AmsatQuery ==
    /\ Len(renders) < MaxRenders
    /\ \E query \in RenderQueries, health \in RenderHealths, render_ok \in BOOLEAN :
         \E results \in {RenderResults[render_entries][query]} :
           \E r \in {IF is_media_server_running("url", health) /\ results # <<>>
                      THEN render_amsat_results(image_cache, render_now, results, render_ok)
                      ELSE [ok |-> FALSE, path |-> NoPath, ran |-> FALSE,
                            files |-> image_cache]} :
             /\ image_cache' = r.files
             /\ renders' = Append(renders,
                   [query |-> query, at |-> render_now,
                    names |-> [i \in DOMAIN results |-> results[i].entry.api_name],
                    response |-> RenderResponses[render_entries][query][health][r.ok],
                    path |-> r.path, ran |-> r.ran])
    /\ UNCHANGED <<render_now, render_entries, store_vars, trigger_vars, worker_vars,
                   feed_vars, query_vars, freq_vars, lock_vars, late_vars>>

RenderNext == RenderTick \/ AmsatQuery

\* format_frequency(raw.frequency)
FormatFrequency ==
    /\ ~freq_call.done
    /\ freq_call' = [freq_call EXCEPT !.done = TRUE,
                                      !.freq = format_frequency(freq_call.freq_hz)]
    /\ UNCHANGED <<store_vars, trigger_vars, worker_vars, feed_vars, query_vars,
                   render_vars, lock_vars, late_vars>>

FreqNext == FormatFrequency

TriggerNext ==
    \/ CalculateNextUpdateTime
    \/ CalculateFixedMinuteTrigger
    \/ ScheduledTaskHandlerNextTrigger

Next ==
    \/ Tick
    \/ initialize
    \/ UpdateScrapeFails
    \/ update_all_satellites

----------------------------------------------------------------------------
(* Specifications *)

\* the entry store under update cycles, restarts and the passing of time
Spec == Init /\ [][Next]_vars

\* the next-trigger computations on every value of now in TriggerTimes
TriggerSpec == TriggerInit /\ [][TriggerNext]_vars

\* the manager and the worker loops
WorkerSpec == WorkerInit /\ [][WorkerNext]_vars

\* the LoTW and QO-100 updaters under every response of their servers
FeedSpec == FeedInit /\ [][FeedNext]_vars

\* parse_amsat_name on every name of ApiNames
NameSpec == NameInit /\ [][NameNext]_vars

\* search_amsat_entries on every query of Queries and slice of SearchSlices
SearchSpec == SearchInit /\ [][SearchNext]_vars

\* the facade on every message of Contents, for every answer of the media server
HandlerSpec == HandlerInit /\ [][HandlerNext]_vars

\* /q commands served one after the other while the clock advances
RenderSpec == RenderInit /\ [][RenderNext]_vars

\* the next cleanup time computed for one value of now
CleanupTimeSpec == CleanupTimeInit /\ [][CleanupTimeNext]_vars

\* update cycles taken step by step while searches come and go
LockSpec == LockInit /\ [][LockNext]_vars

\* format_frequency applied to one frequency
FreqSpec == FreqInit /\ [][FreqNext]_vars

\* the connection manager of the frontend with its tasks and a handler
ConnSpec == ConnInit /\ [][ConnNext]_vars

\* every task of the runtime that can take a step takes one; a task waiting
\* for a guard of the client RwLock, which serves its waiters in the order
\* they came, gets it if the guard is released again and again.  Messages
\* arrive and the backend comes and goes as they please.
ConnFairness ==
    /\ WF_vars(Initialize)
    /\ WF_vars(ReconnectWakes)
    /\ WF_vars(ReconnectTryConnect)
    /\ SF_vars(ReconnectStoresClient)
    /\ WF_vars(ReconnectSetsConnected)
    /\ \A t \in MarkCallers : WF_vars(MarkCheck(t)) /\ SF_vars(MarkClear(t))
    /\ \A t \in {"heartbeat", "subscription"} :
          WF_vars(ReadsState(t)) /\ SF_vars(ClonesClient(t))
    /\ WF_vars(HeartbeatEnds)
    /\ WF_vars(SubscribeEnds)
    /\ WF_vars(StreamEnds)
    /\ SF_vars(HandlerLocksClient)
    /\ WF_vars(HandlerReportEnds)

FairConnSpec == ConnInit /\ [][ConnNext]_vars /\ ConnFairness

\* the registry of frontends of the backend
RegSpec == RegInit /\ [][RegNext]_vars

\* the feed renderers next to the handler of /lotw and /qo100
AliasSpec == AliasInit /\ [][AliasNext]_vars

\* the same, every sleep and every update body ending: a timer fires and an
\* update body is cut off after 300 s
FairWorkerSpec ==
    WorkerSpec /\ WF_vars(SatWorker) /\ WF_vars(UpdaterWorker) /\ WF_vars(CleanupWorker)

----------------------------------------------------------------------------
(* Properties of the entry store *)

Blocks(n) == amsat_entries[n].reports

Retained(entries, at) ==
    \A n \in DOMAIN entries : \A i \in DOMAIN entries[n].reports :
        entries[n].reports[i].time >= at - DATA_RETENTION_HOURS * 60

\* a step of initialize()
InitializeStep ==
    /\ cache_file.exists
    /\ amsat_entries' = cache_file.entries
    /\ UNCHANGED <<now, cache_file, cycles, last_cycle>>

\* C1: right after the startup load every block of every entry, and right
\* after an update cycle every block of every entry the cycle has updated
\* (whatever its fetch returned), is at most 48 h old.
C1_RetentionAfterLoadOrCycle ==
    [][/\ InitializeStep => Retained(amsat_entries', now')
       /\ cycles' = cycles + 1 =>
            \A n \in DOMAIN amsat_entries' :
                amsat_entries'[n].last_updated = now' =>
                    \A i \in DOMAIN amsat_entries'[n].reports :
                        amsat_entries'[n].reports[i].time
                            >= now' - DATA_RETENTION_HOURS * 60]_vars

\* C2: within a block no two stored reports have the same
\* (callsign, reported_time) pair.
C2_UniqueInBlock ==
    \A n \in DOMAIN amsat_entries : \A b \in DOMAIN Blocks(n) :
        \A i, j \in DOMAIN Blocks(n)[b].reports :
            (/\ Blocks(n)[b].reports[i].callsign = Blocks(n)[b].reports[j].callsign
             /\ Blocks(n)[b].reports[i].reported_time
                    = Blocks(n)[b].reports[j].reported_time)
                => i = j

\* C3: for every stored entry, every non-empty report list and every bucket
\* order, merging the list a second time (the clock unchanged) leaves the
\* blocks as the first merge left them.
C3_MergeIdempotent ==
    \A n \in DOMAIN amsat_entries :
    \A l \in ReportLists(n) \ {<<>>} :
    \A o1, o2 \in MergeOrders(l) :
        LET once == merge_reports(Blocks(n), l, o1, now)
            twice == merge_reports(once.blocks, l, o2, now)
        IN  twice = once

\* an entry holding blocks that a first merge of some list changes
C3_Witness ==
    \E n \in DOMAIN amsat_entries :
        /\ Blocks(n) # <<>>
        /\ \E l \in ReportLists(n) \ {<<>>} : \E o \in MergeOrders(l) :
            LET once == merge_reports(Blocks(n), l, o, now)
            IN  once.ok /\ once.blocks # Blocks(n) /\ Len(once.blocks) >= 2

\* C4: the blocks of every entry are ordered by time, newest first.
C4_SortedNewestFirst ==
    \A n \in DOMAIN amsat_entries :
        \A i, j \in DOMAIN Blocks(n) :
            i < j => Blocks(n)[i].time >= Blocks(n)[j].time

\* an entry with blocks of two different hours
C4_Witness ==
    \E n \in DOMAIN amsat_entries :
        /\ Len(Blocks(n)) >= 2
        /\ Blocks(n)[1].time > Blocks(n)[2].time

\* C5: no entry holds two blocks with the same time, and every stored report
\* lies in the block of its reported_time floored to the hour.
C5_OneBlockPerHour ==
    \A n \in DOMAIN amsat_entries :
        /\ \A i, j \in DOMAIN Blocks(n) :
                Blocks(n)[i].time = Blocks(n)[j].time => i = j
        /\ \A i \in DOMAIN Blocks(n) : \A k \in DOMAIN Blocks(n)[i].reports :
                get_time_block(Blocks(n)[i].reports[k].reported_time)
                    = Blocks(n)[i].time

\* a block that holds reports of two different minutes of its hour
C5_Witness ==
    \E n \in DOMAIN amsat_entries : \E i \in DOMAIN Blocks(n) :
        \E k, m \in DOMAIN Blocks(n)[i].reports :
            Blocks(n)[i].reports[k].reported_time
                # Blocks(n)[i].reports[m].reported_time

\* C11: an update cycle leaves an entry whose fetch failed (update_success
\* false after the cycle) with the blocks and the last_fetch_success it had
\* before the cycle; and the Err arm applied to any stored entry changes only
\* update_success (to false) and last_updated (to now).
C11_FailedFetchKeepsEntry ==
    [][cycles' = cycles + 1 =>
        \A n \in DOMAIN amsat_entries :
            /\ ~amsat_entries'[n].update_success =>
                /\ amsat_entries'[n].reports = amsat_entries[n].reports
                /\ amsat_entries'[n].last_fetch_success
                        = amsat_entries[n].last_fetch_success
            /\ LET failed == [ok |-> FALSE, listed |-> TRUE, reports |-> <<>>]
                   one == MergeOne(amsat_entries, n, failed, <<>>, now)
               IN  /\ one.ok
                   /\ one.entries = [amsat_entries EXCEPT
                            ![n].update_success = FALSE,
                            ![n].last_updated = now]]_vars

\* an entry that holds blocks of an earlier cycle and whose fetch has just failed
C11_Witness ==
    \E n \in DOMAIN amsat_entries :
        /\ Blocks(n) # <<>>
        /\ ~amsat_entries[n].update_success
        /\ amsat_entries[n].last_updated = now
        /\ amsat_entries[n].last_fetch_success < now

\* C13: amsat_cache.json changes only in an update cycle whose merge ended
\* Ok, and then holds the merged entry map; a cycle whose merge did not end Ok
\* (or that never reached the merge) leaves the file as it was.
C13_PersistAfterMerge ==
    [][/\ cache_file' # cache_file =>
            /\ cycles' = cycles + 1
            /\ last_cycle'.merged
            /\ cache_file' = [exists |-> TRUE, entries |-> amsat_entries']
       /\ (cycles' = cycles + 1 /\ ~last_cycle'.merged) =>
            cache_file' = cache_file]_vars

\* a cycle whose merge failed after it had changed the entries in memory: the
\* file still holds the map of the cycle before
C13_Witness ==
    /\ last_cycle.scrape = "names"
    /\ ~last_cycle.merged
    /\ cache_file.exists
    /\ cache_file.entries # amsat_entries

\* C14: an update cycle whose scrape fails or yields no name does not fail:
\* it fetches a baseline list of names, merges and writes the cache, so that
\* the cache holds entries after it.
C14_ScrapeFallback ==
    [][(cycles' = cycles + 1 /\ last_cycle'.scrape \in {"failed", "empty"}) =>
        /\ last_cycle'.merged
        /\ cache_file'.exists
        /\ DOMAIN cache_file'.entries # {}
        /\ DOMAIN amsat_entries' # {}]_vars

\* C15: no stored report is dated more than 5 minutes after the merge that
\* stored it, hence none more than 5 minutes after now (the clock does not
\* go back).
C15_NoFutureReports ==
    \A n \in DOMAIN amsat_entries : \A b \in DOMAIN Blocks(n) :
        \A i \in DOMAIN Blocks(n)[b].reports :
            Blocks(n)[b].reports[i].reported_time <= now + 5

\* no two reports of the list have the same callsign
OnePerCallsign(reports) ==
    \A i, j \in DOMAIN reports : reports[i].callsign = reports[j].callsign => i = j

\* C30: within a block at most one report per callsign is kept, a merged
\* report replacing the stored one of its callsign: a block that holds one
\* report per callsign still holds one report per callsign after every step
\* that keeps the block.
C30_OnePerCallsign ==
    [][\A n \in DOMAIN amsat_entries \cap DOMAIN amsat_entries' :
        \A b \in DOMAIN amsat_entries[n].reports :
        \A c \in DOMAIN amsat_entries'[n].reports :
            (/\ amsat_entries[n].reports[b].time = amsat_entries'[n].reports[c].time
             /\ OnePerCallsign(amsat_entries[n].reports[b].reports))
                => OnePerCallsign(amsat_entries'[n].reports[c].reports)]_vars

----------------------------------------------------------------------------
(* Properties of the feed updaters *)

\* C12: an update of LoTW or QO-100 that meets a transient network error (a
\* timeout, a connection reset, a 5xx response) leaves the published
\* snapshot and <feed>_latest.png as they were.
C12_TransientErrorKeepsSnapshot ==
    [][(feed_updates' = feed_updates + 1
            /\ last_update'.response \in TransientErrors)
        => (snapshot' = snapshot /\ latest_png' = latest_png)]_vars

----------------------------------------------------------------------------
(* Properties of the next-trigger computations *)

\* C6: the AMSAT next trigger is, in the current hour, the instant whose
\* minute is the smallest of 02, 17, 32, 47 strictly greater than now.minute,
\* or else minute 02 of the hour that follows now's hour (00 of the next day
\* after hour 23), with second and nanosecond zero; minute 50 gives minute 02
\* of the next hour and minute 0 gives minute 02 of the same hour.
C6_NextTrigger ==
    next_trigger.of \in {"scheduled", "updater"} =>
        LET later == {m \in {2, 17, 32, 47} : m > trigger_now.minute}
            at == next_trigger.at
        IN  /\ at.second = 0
            /\ at.nanosecond = 0
            /\ later # {} =>
                /\ at.minute = CHOOSE m \in later : \A k \in later : m <= k
                /\ at.hour = trigger_now.hour
                /\ at.day = trigger_now.day
            /\ later = {} =>
                /\ at.minute = 2
                /\ at.hour = (trigger_now.hour + 1) % 24
                /\ at.day = IF trigger_now.hour = 23 THEN trigger_now.day + 1
                            ELSE trigger_now.day
            /\ trigger_now.minute = 50 => at.minute = 2
            /\ trigger_now.minute = 0 =>
                at.minute = 2 /\ at.hour = trigger_now.hour

\* now is minute m, second 0 of hour 10, as in test_calculate_next_update_time
TenOClock(m) ==
    trigger_now.hour = 10 /\ trigger_now.minute = m /\ trigger_now.second = 0

\* the trigger lies at minute m of hour h of the day of now
TriggerAt(h, m) ==
    /\ next_trigger.at.day = trigger_now.day
    /\ next_trigger.at.hour = h
    /\ next_trigger.at.minute = m

AheadWithinQuarter ==
    /\ Before_(trigger_now, next_trigger.at)
    /\ Seconds(next_trigger.at) - Seconds(trigger_now) <= 15 * 60

\* C33: for every value of now the AMSAT next trigger computed by
\* calculate_next_update_time and by calculate_fixed_minute_trigger is
\* strictly later than now and at most 15 minutes after now.
C33_TriggerAhead ==
    next_trigger.of \in {"scheduled", "updater"} => AheadWithinQuarter

\* now lies before 03:00:00 UTC of its day: the whole seconds since midnight
\* are fewer than those of three hours, whatever the nanoseconds
BeforeThree ==
    trigger_now.hour * 3600 + trigger_now.minute * 60 + trigger_now.second < 3 * 3600

\* C25: the next trigger of the image cleanup is 03:00:00 UTC of the day of
\* now if now is before 03:00 UTC, and 03:00:00 UTC of the following day
\* otherwise.
C25_NextCleanupAtThree ==
    next_trigger.of = "cleanup" =>
        next_trigger.at =
            DateTime(IF BeforeThree THEN trigger_now.day ELSE trigger_now.day + 1,
                     3, 0, 0, 0)

\* at 03:00:00 sharp the next cleanup is that of the following day; at
\* 02:59:59.999999999 it is the one a nanosecond away
C25_Witness ==
    /\ next_trigger.of = "cleanup"
    /\ \/ trigger_now = DateTime(1, 3, 0, 0, 0) /\ next_trigger.at.day = 2
       \/ trigger_now = DateTime(1, 2, 59, 59, 999999999) /\ next_trigger.at.day = 1

----------------------------------------------------------------------------
(* Properties of the worker loops *)

\* what holds of a retry worker whatever the wait between attempts is
RetryShape(w) ==
    /\ calls[w] <= MAX_RETRIES
    /\ pc[w] = "body" => cycle_result[w] = "running"
    /\ cycle_result[w] = "running" => pc[w] \in {"body", "backoff"}
    /\ cycle_result[w] = "failed" => calls[w] = MAX_RETRIES
    /\ pc[w] = "backoff" =>
        /\ attempt[w] < MAX_RETRIES
        /\ ~last_run[w].ok

\* C7 as stated: in a cycle the update body is invoked at most 3 times, no
\* attempt follows a success, and every failed attempt but the last is
\* followed by a wait of 60 s.
C7_SixtySecondBackoff ==
    \A w \in RetryWorkers :
        /\ RetryShape(w)
        /\ pc[w] = "backoff" => sleep_for[w] = 60

\* C7 amended: as above, the wait being 60 s in satellite_update_loop and
\* 60 s times the number of the failed attempt in run_update_cycle.
C7_BoundedRetries ==
    \A w \in RetryWorkers :
        /\ RetryShape(w)
        /\ pc[w] = "backoff" =>
            sleep_for[w] = IF w = "sat" THEN 60 ELSE 60 * attempt[w]

\* a cycle of the satellite task that failed after its third attempt
C7_Witness ==
    /\ cycle_result["sat"] = "failed"
    /\ calls["sat"] = 3
    /\ pc["sat"] = "sleeping"

\* C8: after a cycle in which every attempt failed, the worker runs the update
\* body again (unless its task has been aborted).
C8_FailedCycleIsFollowed ==
    \A w \in RetryWorkers :
        (cycle_result[w] = "failed") ~> (pc[w] = "body" \/ w \in aborted)

\* the first attempt of a cycle that follows a failed cycle
C8_Witness ==
    /\ pc["sat"] = "body"
    /\ attempt["sat"] = 1
    /\ prev_result["sat"] = "failed"
    /\ cycle_result["sat"] = "running"
    /\ calls["sat"] = 1
    /\ "sat" \notin aborted
    /\ mgr = "started"

\* C9: an update body that needs more than 300 s is abandoned at 300 s and
\* its attempt is a failed one, and a failed attempt is followed by the same
\* step whether it failed by timeout or by an error.
C9_TimeoutIsRetried ==
    [][\A w \in RetryWorkers :
        (pc[w] = "body" /\ pc'[w] # "body") =>
            /\ (last_run'[w].needed > 300) <=> last_run'[w].timed_out
            /\ last_run'[w].ran <= 300
            /\ last_run'[w].timed_out => (~last_run'[w].ok /\ last_run'[w].ran = 300)
            /\ ~last_run'[w].ok =>
                IF attempt[w] < MAX_RETRIES
                THEN pc'[w] = "backoff" /\ cycle_result'[w] = "running"
                ELSE pc'[w] = "sleeping" /\ cycle_result'[w] = "failed"]_vars

\* an attempt that timed out and is waiting for its retry
C9_Witness ==
    /\ pc["sat"] = "backoff"
    /\ last_run["sat"].timed_out
    /\ last_run["sat"].needed = 301

\* C10: once shutdown() has returned, every task the manager started has
\* been aborted and no task of the manager takes another step.
C10_ShutdownStopsWorkers ==
    [][mgr = "down" =>
        /\ \A w \in ManagerWorkers : pc[w] # "unspawned" => w \in aborted
        /\ \A w \in ManagerWorkers : pc'[w] = pc[w]]_vars

\* shutdown has returned while both tasks were waiting for their next trigger
C10_Witness ==
    /\ mgr = "down"
    /\ pc["sat"] = "sleeping"
    /\ pc["cleanup"] = "sleeping"
    /\ aborted = {"sat", "cleanup"}

\* the update_all_satellites futures alive in the tasks of the manager and
\* of the stand-alone updater
LiveBodies == bodies["sat"] + bodies["updater"]

\* C28: at most one AMSAT update body is executing at any time.  The task
\* start_all spawns owns at most one update_all_satellites future, the one
\* of the initial update, of a scheduled cycle or of a retry, and has none
\* while it sleeps or backs off, also after an attempt that timed out; as
\* long as the stand-alone updater, which main never starts, is not spawned,
\* no other future exists, so the entry map has at most one writer.
C28_OneUpdateBody ==
    /\ bodies["sat"] <= 1
    /\ bodies["sat"] = 1 <=> (pc["sat"] \in {"initial", "body"} /\ "sat" \notin aborted)
    /\ pc["updater"] = "unspawned" => LiveBodies <= 1

\* the body of a retry runs after the attempt before it was cut off at the
\* limit by the timeout
C28_Witness ==
    /\ pc["sat"] = "body"
    /\ attempt["sat"] = 2
    /\ last_run["sat"].timed_out
    /\ last_run["sat"].needed = 301
    /\ bodies["sat"] = 1
    /\ pc["updater"] = "unspawned"

----------------------------------------------------------------------------
(* Properties of the name parsing *)

\* the splitters in the order the specification gives them, each with the
\* closing character stripped from its right-hand token
Splitters ==
    <<[at |-> " ", closer |-> ""], [at |-> "-", closer |-> ""],
      [at |-> "[", closer |-> "]"], [at |-> "(", closer |-> ")"]>>

\* the right-hand token of the k-th splitter in the name
RightToken(name, k) ==
    LET rest == After(name, rfind(name, Splitters[k].at))
    IN  trim(IF Splitters[k].closer = "" THEN rest
             ELSE trim_end_matches(rest, Splitters[k].closer))

\* the k-th splitter occurs and its right-hand token is a mode keyword
Qualifies(name, k) ==
    /\ \E i \in DOMAIN name : name[i] = Splitters[k].at
    /\ to_uppercase(RightToken(name, k)) \in MODE_KEYWORDS

\* C19: parse_amsat_name splits at the first of last space, last '-', last
\* '[' and last '(' whose right-hand token is a mode keyword in any case: the
\* left part is base_name, the token in upper case is mode_hint.  If none
\* qualifies, base_name is the whole name and mode_hint is None.  ISS-FM gives
\* (ISS, FM), AO-91 (AO-91, None), FO-118[H/u] (FO-118, H/U), TEVEL-1
\* (TEVEL-1, None).
C19_ParseAmsatName ==
    name_call.done =>
        LET name == name_call.api_name
            parsed == name_call.parsed
            qualifying == {k \in DOMAIN Splitters : Qualifies(name, k)}
        IN  /\ qualifying = {} =>
                /\ parsed.base_name = name
                /\ ~parsed.mode_hint.some
            /\ qualifying # {} =>
                LET k == MinOf(qualifying)
                IN  /\ parsed.base_name = trim(Before(name, rfind(name, Splitters[k].at)))
                    /\ parsed.mode_hint = Some(to_uppercase(RightToken(name, k)))
            /\ name = <<"I", "S", "S", "-", "F", "M">> =>
                parsed = ParsedAmsatName(<<"I", "S", "S">>, Some(<<"F", "M">>))
            /\ name = <<"A", "O", "-", "9", "1">> =>
                parsed = ParsedAmsatName(<<"A", "O", "-", "9", "1">>, NoString)
            /\ name = <<"F", "O", "-", "1", "1", "8", "[", "H", "/", "u", "]">> =>
                parsed = ParsedAmsatName(<<"F", "O", "-", "1", "1", "8">>,
                                         Some(<<"H", "/", "U">>))
            /\ name = <<"T", "E", "V", "E", "L", "-", "1">> =>
                parsed = ParsedAmsatName(<<"T", "E", "V", "E", "L", "-", "1">>, NoString)

\* ISS-V/U FM was parsed: both the space and the hyphen have a mode keyword
\* to their right, and the space was taken
C19_Witness ==
    /\ name_call.done
    /\ name_call.api_name = <<"I", "S", "S", "-", "V", "/", "U", " ", "F", "M">>
    /\ Qualifies(name_call.api_name, 1)
    /\ Qualifies(name_call.api_name, 2)
    /\ name_call.parsed = ParsedAmsatName(<<"I", "S", "S", "-", "V", "/", "U">>,
                                          Some(<<"F", "M">>))

----------------------------------------------------------------------------
(* Properties of the search *)

\* the entries of the search that ran, and its query normalised
SearchedEntries == Entries(search.entries)
SearchedQuery == normalize_for_search(search.query)

\* the entries, by position, that the phase matches
Matches(phase) ==
    {i \in DOMAIN SearchedEntries :
        PhaseMatch(phase, SearchedEntries[i], SearchedQuery).some}

\* the names of the entries returned
Returned == {search.results[k].entry.api_name : k \in DOMAIN search.results}

PhaseTypes == <<"ExactApiName", "BaseName", "Contains", "Fuzzy">>

\* C16: for a query that is not empty once normalised, the search returns
\* exactly the matches of the first of the phases Exact, Base-name, Contains,
\* Fuzzy that has a match, and nothing when no phase has one; what only a
\* later phase matches is not returned.
C16_FirstPhaseOnly ==
    (search.done /\ SearchedQuery # <<>>) =>
        LET matching == {p \in 1..4 : Matches(p) # {}}
        IN  /\ matching = {} => search.results = <<>>
            /\ matching # {} =>
                LET first == MinOf(matching)
                IN  /\ Returned = {SearchedEntries[i].api_name : i \in Matches(first)}
                    /\ Len(search.results) = Cardinality(Matches(first))
                    /\ \A k \in DOMAIN search.results :
                        search.results[k].match_type = PhaseTypes[first]

\* a search was answered by one phase while a later phase matches an entry
\* that the answering phase does not
C16_Witness ==
    /\ search.done
    /\ search.results # <<>>
    /\ \E first \in 1..3, later \in 2..4 :
        /\ first < later
        /\ \A p \in 1..(first - 1) : Matches(p) = {}
        /\ Matches(first) # {}
        /\ Matches(later) \ Matches(first) # {}

\* C17: the scores of the results of a search do not increase in the order
\* the results are returned.
C17_ScoresNonIncreasing ==
    search.done =>
        \A k \in 1..(Len(search.results) - 1) :
            ScoreLeq(search.results[k + 1].score, search.results[k].score)

\* two results of different scores were returned, the higher first, and the
\* entry of the higher came later in the slice
C17_Witness ==
    /\ search.done
    /\ \E k \in 1..(Len(search.results) - 1) :
        /\ ~ScoreLeq(search.results[k].score, search.results[k + 1].score)
        /\ \E i, j \in DOMAIN search.entries :
            /\ i < j
            /\ search.entries[j] = search.results[k].entry.api_name
            /\ search.entries[i] = search.results[k + 1].entry.api_name

\* the entries, by position, of the base name the query normalises to
OfBaseName ==
    {i \in DOMAIN SearchedEntries :
        normalize_for_search(SearchedEntries[i].satellite_base_name) = SearchedQuery}

\* the query normalises to the api_name or to an alias of some entry
IsNameOrAlias ==
    \E i \in DOMAIN SearchedEntries :
        \/ normalize_for_search(SearchedEntries[i].api_name) = SearchedQuery
        \/ \E a \in DOMAIN SearchedEntries[i].aliases :
            normalize_for_search(SearchedEntries[i].aliases[a]) = SearchedQuery

ISS_FM == <<"I", "S", "S", "-", "F", "M">>
ISS_SSTV == <<"I", "S", "S", "-", "S", "S", "T", "V">>
ISS_DATA == <<"I", "S", "S", "-", "D", "A", "T", "A">>
ISS_DATV == <<"I", "S", "S", "-", "D", "A", "T", "V">>

\* C18: a query that normalises to the normalised base name of some entries
\* and to no normalised api_name or alias returns exactly the entries of that
\* base name, each as BaseName with score 0.95; "iss" over the eight entries
\* of the example returns exactly the four ISS-* entries.
C18_BaseNameReturnsAll ==
    search.done =>
        /\ (SearchedQuery # <<>> /\ OfBaseName # {} /\ ~IsNameOrAlias) =>
            /\ Returned = {SearchedEntries[i].api_name : i \in OfBaseName}
            /\ Len(search.results) = Cardinality(OfBaseName)
            /\ \A k \in DOMAIN search.results :
                /\ search.results[k].match_type = "BaseName"
                /\ search.results[k].score = Score(95, 100)
        /\ (search.query = <<"i", "s", "s">> /\ search.entries = make_test_entries) =>
            /\ Returned = {ISS_FM, ISS_SSTV, ISS_DATA, ISS_DATV}
            /\ Len(search.results) = 4

\* "iss" was searched over the eight entries of the example
C18_Witness ==
    /\ search.done
    /\ search.query = <<"i", "s", "s">>
    /\ search.entries = make_test_entries
    /\ OfBaseName # {}
    /\ ~IsNameOrAlias
    /\ Len(search.results) = 4

----------------------------------------------------------------------------
(* Properties of the query facade *)

\* the message handled is a /q or /query command
IsQueryCommand ==
    /\ parse_command(request.content).some
    /\ parse_command(request.content).command \in QueryCommands

\* the media server is configured and /health answered with a status that
\* is not 2xx
HealthRefused ==
    /\ request.config = "url"
    /\ request.health.kind = "status"
    /\ request.health.status \notin 200..299

\* C20: with media_server_url configured and /health answering with a status
\* that is not 2xx, such as 503, a /q command is answered with success = false
\* and content_type = TEXT, and with no image path.
C20_MediaServerDownIsText ==
    (message_response # NoResponse /\ IsQueryCommand /\ HealthRefused) =>
        /\ ~message_response.success
        /\ message_response.content_type = "TEXT"
        /\ message_response.message # "file_path"

\* "/q ISS" was answered while /health gave 503, with eight entries stored
\* and a renderer that would have succeeded
C20_Witness ==
    /\ message_response # NoResponse
    /\ request.content = <<"/", "q", " ", "I", "S", "S">>
    /\ request.entries = make_test_entries
    /\ request.render_ok
    /\ request.config = "url"
    /\ request.health = [kind |-> "status", status |-> 503]
    /\ message_response.message = "media_server_down"
    /\ message_response.health_gets = 1

\* the message handled is one of /q, /query, /dxw, /lotw, /qo100, /qo-100
IsImageCommand ==
    /\ parse_command(request.content).some
    /\ parse_command(request.content).command \in QueryCommands \cup ImageCommands

\* the GET to /health of the request handled was answered with a 2xx status
HealthAnswered2xx ==
    /\ request.health.kind = "status"
    /\ request.health.status \in 200..299

\* C21: with media_server_url set, a response with content_type = IMAGE is
\* given only after one GET to /health was sent while the request was handled
\* and was answered with a 2xx status; when /health did not answer with 2xx,
\* the answer to /q, /dxw, /lotw and /qo100 is a text error.
C21_ImageOnlyAfterHealth2xx ==
    (message_response # NoResponse /\ request.config = "url") =>
        /\ message_response.content_type = "IMAGE" =>
              /\ IsImageCommand
              /\ HealthAnswered2xx
              /\ message_response.health_gets = 1
        /\ (IsImageCommand /\ ~HealthAnswered2xx) =>
              /\ ~message_response.success
              /\ message_response.content_type = "TEXT"

\* "/lotw" was answered with the image after /health gave 204
C21_Witness ==
    /\ message_response # NoResponse
    /\ request.content = <<"/", "l", "o", "t", "w">>
    /\ request.config = "url"
    /\ request.image_exists
    /\ request.health = [kind |-> "status", status |-> 204]
    /\ message_response.content_type = "IMAGE"
    /\ message_response.health_gets = 1

\* the error outcomes of the facade, by the message they carry
ErrorOutcomes ==
    {"media_server_down", "usage", "no_match", "unknown_command", "internal_error",
     "image_not_found_or_media_server_down", "command_parse_failed",
     "no_command_found"}

\* C36, as stated: every response with success = true is an IMAGE carrying a
\* file path, and every error outcome, a failed render among them, has
\* success = false and content_type = TEXT.
C36_SuccessIsImage ==
    message_response # NoResponse =>
        /\ message_response.success =>
              /\ message_response.content_type = "IMAGE"
              /\ message_response.message = "file_path"
        /\ message_response.message \in ErrorOutcomes =>
              /\ ~message_response.success
              /\ message_response.content_type = "TEXT"

\* C36, amended: every IMAGE response has success = true and carries a file
\* path, every error outcome has content_type = TEXT, and every error outcome
\* has success = false except the failed render of a /q that matched, which
\* is answered with success = true and the generic error as TEXT.
C36_ErrorIsText ==
    message_response # NoResponse =>
        /\ message_response.content_type = "IMAGE" <=>
              message_response.message = "file_path"
        /\ message_response.content_type = "IMAGE" => message_response.success
        /\ message_response.message \in ErrorOutcomes <=>
              message_response.content_type = "TEXT"
        /\ (message_response.success /\ message_response.content_type = "TEXT") <=>
              message_response.message = "internal_error"
        /\ message_response.message = "internal_error" <=>
              /\ parse_command(request.content).some
              /\ parse_command(request.content).command \in QueryCommands
              /\ is_media_server_running(request.config, request.health)
              /\ search_amsat_entries(trim(parse_command(request.content).args),
                                      Entries(request.entries)) # <<>>
              /\ ~request.render_ok

\* "/q ISS" matched an entry, the media server ran and the render failed
C36_Witness ==
    /\ message_response # NoResponse
    /\ request.content = <<"/", "q", " ", "I", "S", "S">>
    /\ ~request.render_ok
    /\ message_response.success
    /\ message_response.content_type = "TEXT"
    /\ message_response.message = "internal_error"

----------------------------------------------------------------------------
(* Properties of the image cache of the satellite queries *)

\* the i-th and the j-th /q served fall into the same quarter of an hour,
\* i before j, and the i-th returned an image
SameBucketAfterImage(i, j) ==
    /\ i < j
    /\ renders[i].at \div 15 = renders[j].at \div 15
    /\ renders[i].response.content_type = "IMAGE"
    /\ renders[j].names # <<>>
    /\ renders[j].response.message # "media_server_down"

NameSet(r) == {r.names[i] : i \in DOMAIN r.names}

\* C22 as stated: two /q commands of the same quarter of an hour whose
\* results are the same set of entry names get the same image path, and the
\* second does not run the renderer.
C22_SameNameSetSamePath ==
    \A i, j \in DOMAIN renders :
        (SameBucketAfterImage(i, j) /\ NameSet(renders[i]) = NameSet(renders[j])) =>
            /\ renders[j].path = renders[i].path
            /\ ~renders[j].ran

\* C22: two /q commands of the same quarter of an hour whose results list
\* the same entry names in the same order get the same image path, and once
\* the first has returned an image the second does not run the renderer.
C22_SameNamesSamePath ==
    \A i, j \in DOMAIN renders :
        (SameBucketAfterImage(i, j) /\ renders[i].names = renders[j].names) =>
            /\ renders[j].path = renders[i].path
            /\ renders[j].response.content_type = "IMAGE"
            /\ ~renders[j].ran

\* "/q iss" rendered at minute 0 and was served from the cache at minute 7
C22_Witness ==
    /\ Len(renders) = 2
    /\ renders[1].at = 0 /\ renders[2].at = 7
    /\ renders[1].query = <<"i", "s", "s">> /\ renders[2].query = <<"i", "s", "s">>
    /\ renders[1].ran /\ renders[1].response.content_type = "IMAGE"
    /\ ~renders[2].ran
    /\ renders[2].path = renders[1].path

\* the i-th /q served was answered with the image at its path
Imaged(i) == renders[i].response.content_type = "IMAGE" /\ renders[i].path # NoPath

\* C34: two /q result sets that differ in an entry name never get the same
\* image path within one quarter of an hour, so a /q answered from the cache
\* gets an image that was rendered for its own set of names.
C34_DifferentSetsDifferentPaths ==
    \A i, j \in DOMAIN renders :
        (/\ i < j
         /\ Imaged(i) /\ Imaged(j)
         /\ renders[i].at \div 15 = renders[j].at \div 15
         /\ NameSet(renders[i]) # NameSet(renders[j]))
            => renders[i].path # renders[j].path

----------------------------------------------------------------------------
(* Properties of the frequency column *)

\* the frequency lies in [10_489_500, 10_490_000)
InDisplayedRange == 104895000 <= freq_call.freq_hz /\ freq_call.freq_hz < 104900000

\* the number the digits after the point stand for
Displayed == 100 * (CHOOSE d \in 0..9 : Digit(d) = freq_call.freq[2])
             + 10 * (CHOOSE d \in 0..9 : Digit(d) = freq_call.freq[3])
             + (CHOOSE d \in 0..9 : Digit(d) = freq_call.freq[4])

----------------------------------------------------------------------------
(* Properties of the lock of the entry map *)

\* C26: while the scrape or the batch fetch of an update cycle is in flight
\* the updater holds no guard of the entry map, and the write guard is alive
\* only in the merge phase.
C26_NoLockAcrossNetwork ==
    /\ update_task.phase \in NetworkPhases =>
            (~rw_lock.writer /\ "updater" \notin rw_lock.readers)
    /\ rw_lock.writer => update_task.phase = "merging"

\* a search holds its read guard while the batch fetch is in flight
C26_Witness ==
    /\ update_task.phase = "fetching"
    /\ rw_lock = [writer |-> FALSE, readers |-> {"search"}]
    /\ search_task.phase = "reading"

KeptIn(entries, name, report) ==
    /\ name \in DOMAIN entries
    /\ \E b \in DOMAIN entries[name].reports :
          /\ entries[name].reports[b].time = get_time_block(report.reported_time)
          /\ \E i \in DOMAIN entries[name].reports[b].reports :
                entries[name].reports[b].reports[i] = report

\* the well-formed reports the batch fetch of the cycle brought for the name
WellFormed(name) ==
    {update_task.results[name].reports[i] : i \in
        {j \in DOMAIN update_task.results[name].reports :
            update_task.results[name].reports[j].reported_time # BadTime}}

\* C29: a fetched report whose reported_time cannot be parsed is skipped, and
\* the well-formed reports of the cycle are still merged and persisted: once
\* a cycle that fetched has ended, every well-formed report it fetched is
\* kept in the entry map and in the cache file.
C29_MalformedSkipped ==
    (update_task.phase = "idle" /\ last_cycle.scrape = "names") =>
        \A name \in Names : \A report \in WellFormed(name) :
            /\ KeptIn(amsat_entries, name, report)
            /\ cache_file.exists
            /\ KeptIn(cache_file.entries, name, report)

----------------------------------------------------------------------------
(* Properties of the alias of a feed image *)

\* C35: once <feed>_latest.png has been published, a lotw_query / qo100_query
\* running next to any later render finds the file and, the media server
\* running, answers with the image: the alias is never missing in between.
C35_AliasAlwaysPresent ==
    (latest_query.feed # "none" /\ latest_query.published) =>
        /\ latest_query.image_exists
        /\ latest_query.response.health_ok =>
              latest_query.response.content_type = "IMAGE"

----------------------------------------------------------------------------
(* Properties of the connection manager of the frontend *)

\* the calls of mark_disconnected that set Disconnected
Teardowns == {c \in mark_calls : c.transitioned}

C37_ConnectedHasClient ==
    (conn_pc["main"] = "running" /\ conn_state = "Connected") => client # 0

\* C38: no task is inside mark_disconnected, waiting for the write guard of
\* the client, while it holds a guard of the client itself.
C38_MarkDisconnectedNeverBlocked ==
    \A t \in MarkCallers : conn_pc[t] \in {"mark", "clear"} => client_lock # t

\* the reconnect task is about to connect and the exploration ends here
CapReached == conn_pc["reconnect"] = "try_connect" /\ connects = MaxConnects

\* C39: from any moment on from which the backend stays reachable, the
\* manager eventually is in state Connected with a client present.
C39_EventuallyReconnected ==
    []([](backend_up /\ ~CapReached) => <>(conn_state = "Connected" /\ client # 0))

----------------------------------------------------------------------------
(* Properties of the registry of frontends *)

\* the latest subscription made with the frontend_id, 0 if there is none
Newest(id) ==
    IF \E n \in DOMAIN subscriptions : subscriptions[n].frontend_id = id
    THEN MaxOf({n \in DOMAIN subscriptions : subscriptions[n].frontend_id = id})
    ELSE 0

\* C40: a frontend whose latest command subscription is open is registered
\* with the sender of that subscription, and a command sent to it is not
\* refused: the monitor of an earlier subscription with the same
\* frontend_id does not remove the entry.
C40_OpenStaysRegistered ==
    \A id \in FrontendIds :
        (Newest(id) # 0 /\ subscriptions[Newest(id)].open) =>
            /\ frontends[id] = Newest(id)
            /\ (last_send.frontend_id = id /\ last_send.subscription = frontends[id])
                  => last_send.ok

====
